---- MODULE Spec2Model ----
(***************************************************************************)
(* A model of the schemable validation library (src/src/schemable).        *)
(*                                                                         *)
(* Python objects are records with a `kind` field holding the name of the  *)
(* object's class: plain values ("str", "int", "NoneType", "type",         *)
(* "tuple", "list", "dict", "function") and the library's schema objects   *)
(* ("Schema", "Type", "Value", "List", "Dict", "Optional", "All", "Any").  *)
(* A dict is the sequence of its (key, value) items in insertion order.    *)
(* The state is one compiled Schema object (schema), the calls made on it  *)
(* so far with what each returned or raised (log), the number of calls the *)
(* callers still make (calls_left), and the local variables of the calls   *)
(* that several callers have in progress on the schema (frames).           *)
(***************************************************************************)
EXTENDS Integers, Sequences, FiniteSets, TLC

VARIABLES schema, log, calls_left, frames

vars == <<schema, log, calls_left, frames>>

(***************************************************************************)
(* Bounds of the model.                                                    *)
(***************************************************************************)
MaxCalls == 1

MaxSpecKeys == 2

MaxKeys == 2

\* elements of an input list
MaxLen == 2

\* calls made on a schema whose defaults are generated
MaxDefaultCalls == 2

\* schemas of an All or of an Any
MaxNodes == 3

\* types of a tuple of types
MaxTypes == 2

\* callers that share one schema
MaxCallers == 2

\* calls that the callers of a shared schema make in all
MaxSharedCalls == 2

(***************************************************************************)
(* Python values.                                                          *)
(***************************************************************************)
None == [kind |-> "NoneType"]

NotSet == [kind |-> "_NotSet"]

ALLOW_EXTRA == "True"

DENY_EXTRA == "False"

IGNORE_EXTRA == "None"

PyStr(s) == [kind |-> "str", s |-> s]

PyInt(n) == [kind |-> "int", n |-> n]

PyType(name) == [kind |-> "type", name |-> name]

PyTuple(items) == [kind |-> "tuple", items |-> items]

PyList(items) == [kind |-> "list", items |-> items]

KV(k, v) == [k |-> k, v |-> v]

PyDict(items) == [kind |-> "dict", items |-> items]

PyBool(b) == [kind |-> "bool", b |-> b]

PyFunc(name) == [kind |-> "function", name |-> name]

\* operator.itemgetter(key)
itemgetter(key) == [kind |-> "itemgetter", key |-> key]

SchemaResult(data, errors) == [kind |-> "SchemaResult", data |-> data, errors |-> errors]

\* What a call of a schema object's __call__ does: raise AssertionError(msg),
\* or return a value (a plain object or a SchemaResult).
Raise(msg) == [raised |-> TRUE, msg |-> msg, value |-> None]

Return(value) == [raised |-> FALSE, msg |-> "", value |-> value]

\* What a call of one of the caller's callables does: raise an exception of
\* class cls with message msg, or return a value.
Throw(cls, msg) == [threw |-> TRUE, cls |-> cls, msg |-> msg, value |-> None]

Gives(value) == [threw |-> FALSE, cls |-> "", msg |-> "", value |-> value]

HashableClasses == {"Schema", "Type", "Value", "Optional"}

SchemaClasses ==
    {"Schema", "Type", "Value", "Optional", "List", "Dict", "All", "Any", "Use",
     "Validate", "As", "Select"}

IsSchemaABC(x) == x.kind \in SchemaClasses

IsType(x) == x.kind = "type"

IsTupleOfTypes(x) == x.kind = "tuple" /\ \A i \in 1..Len(x.items) : IsType(x.items[i])

\* callable(x): functions, classes, itemgetters and schema objects
Callable(x) == x.kind \in {"function", "type", "itemgetter"} \/ IsSchemaABC(x)

\* isinstance(x, t) for a type object t
IsInstance1(x, t) ==
    CASE t.name = "object" -> TRUE
      [] t.name = "Mapping" -> x.kind = "dict"
      [] t.name = "int" -> x.kind \in {"int", "bool"}
      [] OTHER -> x.kind = t.name

\* isinstance(x, types) for a tuple of type objects
IsInstance(x, types) == \E i \in 1..Len(types.items) : IsInstance1(x, types.items[i])

\* Python truthiness of the values that the library tests with `if x` / `not x`
Truthy(x) ==
    CASE x.kind = "NoneType" -> FALSE
      [] x.kind = "_NotSet" -> FALSE
      [] x.kind = "bool" -> x.b
      [] x.kind = "str" -> x.s # ""
      [] x.kind = "int" -> x.n # 0
      [] x.kind \in {"dict", "list", "tuple"} -> Len(x.items) > 0
      [] OTHER -> TRUE


(***************************************************************************)
(* Strings: character codes, comparison, sorting.                          *)
(***************************************************************************)
Digits == "0123456789"

UpperCase == "ABCDEFGHIJKLMNOPQRSTUVWXYZ"

LowerCase == "abcdefghijklmnopqrstuvwxyz"

Punctuation ==
    " " :> 32 @@ "'" :> 39 @@ "(" :> 40 @@ ")" :> 41 @@ "," :> 44 @@ "." :> 46 @@
    ":" :> 58 @@ "<" :> 60 @@ ">" :> 62 @@ "[" :> 91 @@ "]" :> 93 @@ "_" :> 95 @@
    "{" :> 123 @@ "}" :> 125

IndexIn(chars, c) == CHOOSE i \in 1..Len(chars) : SubSeq(chars, i, i) = c

HasChar(chars, c) == \E i \in 1..Len(chars) : SubSeq(chars, i, i) = c

\* ord(c) of a one-character string
Ord(c) ==
    CASE HasChar(LowerCase, c) -> 96 + IndexIn(LowerCase, c)
      [] HasChar(UpperCase, c) -> 64 + IndexIn(UpperCase, c)
      [] HasChar(Digits, c) -> 47 + IndexIn(Digits, c)
      [] OTHER -> Punctuation[c]

Codes(s) == [i \in 1..Len(s) |-> Ord(SubSeq(s, i, i))]

\* the character codes of s.lower()
LowerCodes(s) ==
    [i \in 1..Len(s) |->
        LET c == Ord(SubSeq(s, i, i)) IN IF c >= 65 /\ c <= 90 THEN c + 32 ELSE c]

\* a < b for two sequences of character codes (Python's string order)
CodesLess(a, b) ==
    \E i \in 1..(Len(a) + 1) :
        /\ \A j \in 1..(i - 1) : j <= Len(b) /\ a[j] = b[j]
        /\ i <= Len(b)
        /\ (i > Len(a) \/ a[i] < b[i])

\* sorted(seq, key=...) with keys[i] the key of seq[i], a sequence of integers:
\* a stable sort
StableSort(seq, keys) ==
    LET n == Len(seq)
        rank(i) == Cardinality({j \in 1..n : CodesLess(keys[j], keys[i])
                                             \/ (~CodesLess(keys[i], keys[j]) /\ j < i)}) + 1
    IN  [p \in 1..n |-> seq[CHOOSE i \in 1..n : rank(i) = p]]

RECURSIVE Join(_, _)
\* sep.join(parts)
Join(parts, sep) ==
    IF Len(parts) = 0 THEN ""
    ELSE IF Len(parts) = 1 THEN parts[1]
    ELSE parts[1] \o sep \o Join(Tail(parts), sep)

\* cls.__name__
TypeName(t) == t.name

RECURSIVE Repr(_)
\* repr(x)
Repr(x) ==
    CASE x.kind = "str" -> "'" \o x.s \o "'"
      [] x.kind = "int" -> ToString(x.n)
      [] x.kind = "NoneType" -> "None"
      [] x.kind = "bool" -> IF x.b THEN "True" ELSE "False"
      [] x.kind = "_NotSet" -> "<NotSet>"
      [] x.kind = "type" ->
            IF x.name = "Mapping" THEN "<class 'collections.abc.Mapping'>"
            ELSE "<class '" \o x.name \o "'>"
      [] x.kind = "function" -> "<function " \o x.name \o ">"
      [] x.kind = "itemgetter" -> "operator.itemgetter(" \o Repr(x.key) \o ")"
      [] x.kind = "tuple" ->
            IF Len(x.items) = 1 THEN "(" \o Repr(x.items[1]) \o ",)"
            ELSE "(" \o Join([i \in 1..Len(x.items) |-> Repr(x.items[i])], ", ") \o ")"
      [] x.kind = "list" ->
            "[" \o Join([i \in 1..Len(x.items) |-> Repr(x.items[i])], ", ") \o "]"
      [] x.kind = "dict" ->
            "{" \o Join([i \in 1..Len(x.items) |->
                            Repr(x.items[i].k) \o ": " \o Repr(x.items[i].v)], ", ") \o "}"
      [] OTHER -> x.kind \o "(" \o Repr(x.spec) \o ")"

\* str(x) of a plain value
StrOf(x) == IF x.kind = "str" THEN x.s ELSE Repr(x)

(***************************************************************************)
(* Equality and hashing of Python objects; dict operations.                *)
(***************************************************************************)
RECURSIVE Unwrap(_)
\* _HashableSchema hashes and compares as its `schema` attribute does
Unwrap(x) == IF x.kind \in HashableClasses THEN Unwrap(x.schema) ELSE x

\* the number a bool or an int compares as
Num(x) == IF x.kind = "bool" THEN (IF x.b THEN 1 ELSE 0) ELSE x.n

RECURSIVE PyEq(_, _)
\* a == b.  Schema objects that are not hashable compare by identity, and two
\* such objects met through different places of a spec are different objects.
PyEq(a, b) ==
    LET x == Unwrap(a)
        y == Unwrap(b)
    IN  IF x.kind \in {"int", "bool"} /\ y.kind \in {"int", "bool"} THEN Num(x) = Num(y)
        ELSE IF x.kind # y.kind THEN FALSE
        ELSE CASE x.kind = "dict" ->
                    /\ Len(x.items) = Len(y.items)
                    /\ \A i \in 1..Len(x.items) : \E j \in 1..Len(y.items) :
                          /\ PyEq(x.items[i].k, y.items[j].k)
                          /\ PyEq(x.items[i].v, y.items[j].v)
               [] x.kind \in {"list", "tuple"} ->
                    /\ Len(x.items) = Len(y.items)
                    /\ \A i \in 1..Len(x.items) : PyEq(x.items[i], y.items[i])
               [] x.kind \in SchemaClasses -> FALSE
               [] OTHER -> x = y

\* position of key k in the items of dict d, 0 when absent
DictIndex(d, k) ==
    IF \E i \in 1..Len(d.items) : PyEq(d.items[i].k, k)
    THEN CHOOSE i \in 1..Len(d.items) : PyEq(d.items[i].k, k)
    ELSE 0

\* k in d
DictHas(d, k) == DictIndex(d, k) # 0

\* d[k]
DictGet(d, k) == d.items[DictIndex(d, k)].v

\* d[k] = v
DictSet(d, k, v) ==
    LET i == DictIndex(d, k)
    IN  IF i = 0 THEN [d EXCEPT !.items = Append(@, KV(k, v))]
        ELSE [d EXCEPT !.items[i].v = v]

\* d.setdefault(k, v)
DictSetDefault(d, k, v) == IF DictHas(d, k) THEN d ELSE DictSet(d, k, v)

\* x in s, for a set s of Python objects
SetHas(s, x) == \E y \in s : PyEq(y, x)

(***************************************************************************)
(* Construction: each class's __init__ and compile().  `now` is the value  *)
(* the caller's default generator returns at the time of construction.     *)
(***************************************************************************)
\* f() for the zero-argument callables of the model: the caller's generator
\* "counter" returns the number of evaluations started so far, a class
\* returns a new empty instance
CallNoArgs(f, now) ==
    CASE f.kind = "function" -> PyInt(now)
      [] f.kind = "type" /\ f.name = "list" -> PyList(<<>>)
      [] f.kind = "type" /\ f.name = "dict" -> PyDict(<<>>)
      [] f.kind = "type" /\ f.name = "str" -> PyStr("")
      [] OTHER -> PyInt(0)

Type_compile(spec) == IF IsType(spec) THEN PyTuple(<<spec>>) ELSE spec

Type_new(spec) == [kind |-> "Type", spec |-> spec, schema |-> Type_compile(spec)]

Value_new(spec) == [kind |-> "Value", spec |-> spec, schema |-> spec]

Use_new(spec) == [kind |-> "Use", spec |-> spec, schema |-> spec]

Optional_compile(spec) ==
    IF IsType(spec) \/ IsTupleOfTypes(spec) THEN Type_new(spec) ELSE Value_new(spec)

Optional_new(spec, default) ==
    [kind |-> "Optional", spec |-> spec, _default |-> default,
     schema |-> Optional_compile(spec)]

\* the `default` property
Optional_default(self, now) ==
    IF Callable(self._default) THEN CallNoArgs(self._default, now) ELSE self._default

\* OrderedDict(pairs): a later pair with an equal key replaces the value
RECURSIVE OrderedDict(_)
OrderedDict(pairs) ==
    IF Len(pairs) = 0 THEN [kind |-> "dict", items |-> <<>>]
    ELSE LET n == Len(pairs)
         IN  DictSet(OrderedDict(SubSeq(pairs, 1, n - 1)), pairs[n].k, pairs[n].v)

Dict_spec_priority_sort_key(kv_schema) ==
    IF kv_schema.k.schema.kind = "Value" THEN -1 ELSE -2

RECURSIVE SchemaStr(_)
\* str(schema_object)
SchemaStr(self) ==
    CASE self.kind = "Schema" -> SchemaStr(self.schema)
      [] self.kind = "Type" ->
            IF self.spec.kind = "tuple"
            THEN "(" \o Join([i \in 1..Len(self.spec.items) |->
                                 TypeName(self.spec.items[i])], ", ") \o ")"
            ELSE TypeName(self.spec)
      [] OTHER -> StrOf(self.spec)

RECURSIVE Schema_new(_, _, _, _)
RECURSIVE List_new(_, _)
RECURSIVE Dict_new(_, _, _)
RECURSIVE All_new(_, _)
RECURSIVE Any_new(_, _)

\* Validate.compile returns the callable spec
Validate_new(spec) == [kind |-> "Validate", spec |-> spec, schema |-> spec]

\* As.compile returns the callable spec
As_new(spec) == [kind |-> "As", spec |-> spec, schema |-> spec]

\* (mutant) a callable is looked for before a type
Schema_compile_callable_first(spec, extra, now) ==
    IF spec.kind = "Schema" THEN spec.schema
    ELSE IF IsSchemaABC(spec) THEN spec
    ELSE IF spec.kind = "list" THEN List_new(spec, now)
    ELSE IF spec.kind = "dict" THEN Dict_new(spec, extra, now)
    ELSE IF Callable(spec) THEN Validate_new(spec)
    ELSE IF spec.kind \in {"tuple", "type"} THEN Type_new(spec)
    ELSE Value_new(spec)

\* (mutant) the spec of a Schema object is compiled again
Schema_compile_again(spec, extra, now) ==
    IF spec.kind = "Schema" THEN Dict_new(spec.spec, extra, now)
    ELSE IF IsSchemaABC(spec) THEN spec
    ELSE IF spec.kind = "list" THEN List_new(spec, now)
    ELSE IF spec.kind = "dict" THEN Dict_new(spec, extra, now)
    ELSE IF spec.kind \in {"tuple", "type"} THEN Type_new(spec)
    ELSE IF Callable(spec) THEN Validate_new(spec)
    ELSE Value_new(spec)

\* Schema.compile: the first test that the spec passes chooses the class
Schema_compile(spec, extra, now) ==
    IF spec.kind = "Schema" THEN spec.schema
    ELSE IF IsSchemaABC(spec) THEN spec
    ELSE IF spec.kind = "list" THEN List_new(spec, now)
    ELSE IF spec.kind = "dict" THEN Dict_new(spec, extra, now)
    ELSE IF spec.kind \in {"tuple", "type"} THEN Type_new(spec)
    ELSE IF Callable(spec) THEN Validate_new(spec)
    ELSE Value_new(spec)

Schema_new(spec, strict, extra, now) ==
    [kind |-> "Schema", spec |-> spec, strict |-> strict, extra |-> extra,
     schema |-> Schema_compile(spec, extra, now)]

All_compile(specs, now) ==
    PyTuple([i \in 1..Len(specs.items) |->
                Schema_new(specs.items[i], FALSE, IGNORE_EXTRA, now)])

All_new(specs, now) ==
    [kind |-> "All", spec |-> specs, schema |-> All_compile(specs, now)]

Any_compile(specs, now) ==
    PyTuple([i \in 1..Len(specs.items) |->
                Schema_new(specs.items[i], FALSE, IGNORE_EXTRA, now)])

Any_new(specs, now) ==
    [kind |-> "Any", spec |-> specs, schema |-> Any_compile(specs, now)]

\* Select.compile on spec = (key, iteratee): an All over the As of the field
\* getter and of the iteratee that are given
Select_compile(spec, now) ==
    LET key == IF Callable(spec.items[1]) THEN NotSet
               ELSE IF spec.items[1] # NotSet THEN itemgetter(spec.items[1])
               ELSE NotSet
        iteratee == IF Callable(spec.items[1]) THEN spec.items[1] ELSE spec.items[2]
    IN  All_new(PyTuple((IF Truthy(key) THEN <<As_new(key)>> ELSE <<>>) \o
                        (IF Truthy(iteratee) THEN <<As_new(iteratee)>> ELSE <<>>)), now)

\* Select(spec, iteratee)
Select_new(spec, iteratee, now) ==
    [kind |-> "Select", spec |-> PyTuple(<<spec, iteratee>>),
     schema |-> Select_compile(PyTuple(<<spec, iteratee>>), now)]

\* (mutant) only the last element spec is compiled
List_compile_last_only(spec, now) ==
    All_new(PyTuple(IF Len(spec.items) = 0 THEN <<>> ELSE <<spec.items[Len(spec.items)]>>),
            now)

List_compile(spec, now) == All_new(PyTuple(spec.items), now)

List_new(spec, now) ==
    [kind |-> "List", spec |-> spec, schema |-> List_compile(spec, now)]

\* the key/value schema pairs of Dict.compile, in priority order
Dict_compile(spec, extra, now) ==
    LET pairs == [i \in 1..Len(spec.items) |->
                    KV(Schema_new(spec.items[i].k, FALSE, IGNORE_EXTRA, now),
                       Schema_new(spec.items[i].v, FALSE, extra, now))]
        prio == [i \in 1..Len(pairs) |-> <<Dict_spec_priority_sort_key(pairs[i])>>]
    IN  OrderedDict(StableSort(pairs, prio))

\* self.keys
Dict_keys(compiled) ==
    LET ks == [i \in 1..Len(compiled.items) |-> compiled.items[i].k]
    IN  PyList(StableSort(ks, [i \in 1..Len(ks) |-> Codes(SchemaStr(ks[i]))]))

\* self.required
Dict_required(compiled) ==
    {compiled.items[i].k : i \in {j \in 1..Len(compiled.items) :
                                    compiled.items[j].k.schema.kind # "Optional"}}

RECURSIVE Dict_defaults_upto(_, _, _)
Dict_defaults_upto(compiled, n, now) ==
    IF n = 0 THEN PyDict(<<>>)
    ELSE LET k == compiled.items[n].k
             rest == Dict_defaults_upto(compiled, n - 1, now)
         IN  IF k.schema.kind = "Optional" /\ Optional_default(k.schema, now) # NotSet
             THEN DictSet(rest, k.schema.spec, Optional_default(k.schema, now))
             ELSE rest

\* self.defaults
Dict_defaults(compiled, now) == Dict_defaults_upto(compiled, Len(compiled.items), now)

Dict_new(spec, extra, now) ==
    LET schema_ == Dict_compile(spec, extra, now)
    IN  [kind |-> "Dict", spec |-> spec, extra |-> extra, schema |-> schema_,
         keys |-> Dict_keys(schema_),
         required |-> Dict_required(schema_),
         defaults |-> Dict_defaults(schema_, now)]

(***************************************************************************)
(* Construction that fails: compile() raises TypeError on a spec of the    *)
(* wrong shape.  Each operator gives the message of the TypeError that the *)
(* compile() raises, "" when it returns.                                   *)
(***************************************************************************)
\* the TypeError that a constructor call raised; raised_by is the call
TypeError(message, call) == [kind |-> "TypeError", message |-> message, raised_by |-> call]

Type_compile_error(spec) ==
    IF IsType(spec) \/ IsTupleOfTypes(spec) THEN ""
    ELSE "Type schema spec must be a type or a tuple of types"

List_compile_error(spec) ==
    IF spec.kind = "list" THEN "" ELSE "List schema spec must be a list"

Dict_compile_error(spec) ==
    IF spec.kind = "dict" THEN "" ELSE "Dict schema spec must be a dict"

Validate_compile_error(spec) ==
    IF Callable(spec) THEN "" ELSE "Validate schema spec must be callable"

As_compile_error(spec) ==
    IF Callable(spec) THEN "" ELSE "As schema spec must be callable"

\* (mutant) the transform of a Select is not checked
Select_compile_unchecked(spec) == ""

\* Select.compile on spec = (key, iteratee)
Select_compile_error(spec) ==
    LET iteratee == IF Callable(spec.items[1]) THEN spec.items[1] ELSE spec.items[2]
    IN  IF iteratee # NotSet /\ ~Callable(iteratee)
        THEN "Schema iteratee must be callable but found " \o Repr(iteratee)
        ELSE ""

RECURSIVE Schema_compile_error(_)
RECURSIVE First_compile_error(_, _)

\* the first TypeError of Schema(s) for s in specs, from the i-th spec on
First_compile_error(specs, i) ==
    IF i > Len(specs) THEN ""
    ELSE IF Schema_compile_error(specs[i]) # "" THEN Schema_compile_error(specs[i])
    ELSE First_compile_error(specs, i + 1)

\* Schema.compile on a spec: a schema object is taken as it is, the elements
\* of a list and the keys and values of a dict are compiled in order, a tuple
\* goes to Type
Schema_compile_error(spec) ==
    IF IsSchemaABC(spec) THEN ""
    ELSE IF spec.kind = "list" THEN First_compile_error(spec.items, 1)
    ELSE IF spec.kind = "dict"
         THEN First_compile_error([j \in 1..(2 * Len(spec.items)) |->
                                      IF j % 2 = 1 THEN spec.items[(j + 1) \div 2].k
                                      ELSE spec.items[j \div 2].v], 1)
    ELSE IF spec.kind \in {"tuple", "type"} THEN Type_compile_error(spec)
    ELSE ""

\* the message of the TypeError that the constructor call cls(*args) raises
init_error(cls, args) ==
    CASE cls = "Type" -> Type_compile_error(args[1])
      [] cls = "List" ->
            IF List_compile_error(args[1]) # "" THEN List_compile_error(args[1])
            ELSE First_compile_error(args[1].items, 1)
      [] cls = "Dict" ->
            IF Dict_compile_error(args[1]) # "" THEN Dict_compile_error(args[1])
            ELSE Schema_compile_error(args[1])
      [] cls = "Validate" -> Validate_compile_error(args[1])
      [] cls = "As" -> As_compile_error(args[1])
      [] cls = "Select" ->
            IF Len(args) = 0
            THEN "Select.__init__() missing 1 required positional argument: 'spec'"
            ELSE Select_compile_error(PyTuple(<<args[1], IF Len(args) > 1 THEN args[2]
                                                         ELSE NotSet>>))
      [] cls = "Schema" -> Schema_compile_error(args[1])

\* the object that the constructor call cls(*args) returns when it does not
\* raise
init_object(cls, args) ==
    CASE cls = "Type" -> Type_new(args[1])
      [] cls = "List" -> List_new(args[1], 0)
      [] cls = "Dict" -> Dict_new(args[1], IGNORE_EXTRA, 0)
      [] cls = "Validate" -> Validate_new(args[1])
      [] cls = "As" -> As_new(args[1])
      [] cls = "Select" -> Select_new(args[1], IF Len(args) > 1 THEN args[2] ELSE NotSet, 0)
      [] cls = "Schema" -> args[1]

\* the caller's Schema(cls(*args), extra=extra), or Schema(spec, extra=extra)
\* when cls is Schema: the Schema object, or the TypeError raised on the way
Schema_init(call, extra) ==
    IF init_error(call.cls, call.args) # ""
    THEN TypeError(init_error(call.cls, call.args), call)
    ELSE Schema_new(init_object(call.cls, call.args), FALSE, extra, 0)

(***************************************************************************)
(* Evaluation: each class's __call__.  A call raises AssertionError or     *)
(* returns; Schema.__call__ turns both into a SchemaResult.                *)
(***************************************************************************)
\* (mutant) the type names are sorted as they are written, upper case first
Type_format_error_case_sensitive(self, obj_) ==
    LET names == [i \in 1..Len(self.schema.items) |-> TypeName(self.schema.items[i])]
        expected == Join(StableSort(names, [i \in 1..Len(names) |-> Codes(names[i])]),
                         " or ")
    IN  "type error, expected " \o expected \o " but found " \o obj_.kind

Type_format_error(self, obj_) ==
    LET names == [i \in 1..Len(self.schema.items) |-> TypeName(self.schema.items[i])]
        expected == Join(StableSort(names, [i \in 1..Len(names) |-> LowerCodes(names[i])]),
                         " or ")
    IN  "type error, expected " \o expected \o " but found " \o obj_.kind

Type_call(self, obj_) ==
    IF ~IsInstance(obj_, self.schema) THEN Raise(Type_format_error(self, obj_))
    ELSE Return(obj_)

\* (mutant) a bool and an int never compare equal
Value_call_same_class(self, obj_) ==
    IF obj_ # self.schema
    THEN Raise("value error, expected " \o Repr(self.schema) \o " but found " \o Repr(obj_))
    ELSE Return(obj_)

Value_call(self, obj_) ==
    IF ~PyEq(obj_, self.schema)
    THEN Raise("value error, expected " \o Repr(self.schema) \o " but found " \o Repr(obj_))
    ELSE Return(obj_)

Optional_call(self, obj_) ==
    IF self.schema.kind = "Type" THEN Type_call(self.schema, obj_)
    ELSE Value_call(self.schema, obj_)

Use_call(self, now) ==
    IF Callable(self.schema) THEN Return(CallNoArgs(self.schema, now))
    ELSE Return(self.schema)

\* List._validate_obj = Type(list), Dict._validate_obj = Type(Mapping)
List_validate_obj == Type_new(PyType("list"))

Dict_validate_obj == Type_new(PyType("Mapping"))

Select_validate_obj == Type_new(PyType("Mapping"))

\* _get_spec_name: the __name__ of a function or class, else the class name
get_spec_name(spec) ==
    IF spec.kind \in {"function", "type"} THEN spec.name ELSE spec.kind

\* s is a non-empty string of decimal digits
IsDigits(s) == Len(s) > 0 /\ \A i \in 1..Len(s) : HasChar(Digits, SubSeq(s, i, i))

RECURSIVE ParseInt(_)
\* the number a string of decimal digits denotes
ParseInt(s) ==
    IF Len(s) = 0 THEN 0
    ELSE 10 * ParseInt(SubSeq(s, 1, Len(s) - 1)) + (Ord(SubSeq(s, Len(s), Len(s))) - 48)

\* int(x), for numbers, strings of letters and digits, and objects that are
\* neither numbers nor strings
int_call(x) ==
    CASE x.kind \in {"int", "bool"} -> Gives(PyInt(Num(x)))
      [] x.kind = "str" ->
            IF IsDigits(x.s) THEN Gives(PyInt(ParseInt(x.s)))
            ELSE Throw("ValueError",
                       "invalid literal for int() with base 10: " \o Repr(x))
      [] OTHER ->
            Throw("TypeError",
                  "int() argument must be a string, a bytes-like object or a real " \o
                  "number, not '" \o x.kind \o "'")

\* str(x)
str_call(x) == Gives(PyStr(StrOf(x)))

\* n < bound or n > bound of the caller's predicates
Compare(op, x, bound) ==
    IF x.kind \in {"int", "bool"}
    THEN Gives(PyBool(IF op = "<" THEN Num(x) < bound ELSE Num(x) > bound))
    ELSE Throw("TypeError", "'" \o op \o "' not supported between instances of '" \o
                            x.kind \o "' and 'int'")

\* a * 2 of the caller's transform
Double(x) ==
    CASE x.kind \in {"int", "bool"} -> Gives(PyInt(2 * Num(x)))
      [] x.kind = "str" -> Gives(PyStr(x.s \o x.s))
      [] x.kind \in {"list", "tuple"} -> Gives([x EXCEPT !.items = @ \o @])
      [] OTHER -> Throw("TypeError", "unsupported operand type(s) for *: '" \o
                                     x.kind \o "' and 'int'")

\* obj[key] for a key that is not an integer
GetItem(x, key) ==
    CASE x.kind = "dict" ->
            IF DictHas(x, key) THEN Gives(DictGet(x, key)) ELSE Throw("KeyError", Repr(key))
      [] x.kind = "str" ->
            Throw("TypeError", "string indices must be integers, not '" \o key.kind \o "'")
      [] x.kind \in {"list", "tuple"} ->
            Throw("TypeError", x.kind \o " indices must be integers or slices, not " \o
                               key.kind)
      [] OTHER -> Throw("TypeError", "'" \o x.kind \o "' object is not subscriptable")

\* (mutant) the errors of a result are stored whatever they are
Dict_extend_with_any_errors(key, res, acc) ==
    [data |-> IF res.data # None \/ ~Truthy(res.errors)
              THEN DictSet(acc.data, key, res.data)
              ELSE acc.data,
     errors |-> DictSet(acc.errors, key,
                        IF res.errors.kind = "str"
                        THEN PyStr("bad value: " \o res.errors.s)
                        ELSE res.errors),
     seen |-> acc.seen \cup {key}]

\* Dict._extend_with_result on acc = [data, errors, seen]
Dict_extend_with_result(key, res, acc) ==
    LET error == IF res.errors.kind = "str"
                 THEN PyStr("bad value: " \o res.errors.s)
                 ELSE res.errors
        errors1 == IF Truthy(res.errors) THEN DictSet(acc.errors, key, error)
                   ELSE acc.errors
        data1 == IF res.data # None \/ ~Truthy(res.errors)
                 THEN DictSet(acc.data, key, res.data)
                 ELSE acc.data
    IN  [data |-> data1, errors |-> errors1, seen |-> acc.seen \cup {key}]

\* the 'bad key' message of the deny policy
Dict_bad_key_error(self) ==
    PyStr("bad key: not in " \o
          Repr(PyList([i \in 1..Len(self.keys.items) |-> self.keys.items[i].schema.spec])))

\* the extra-key policy applied to a pair that no key schema matches
Dict_extra(self, key, value, acc) ==
    IF self.extra = ALLOW_EXTRA THEN [acc EXCEPT !.data = DictSet(@, key, value)]
    ELSE IF self.extra = DENY_EXTRA
         THEN [acc EXCEPT !.errors = DictSet(@, key, Dict_bad_key_error(self))]
         ELSE acc

RECURSIVE Call(_, _, _)
RECURSIVE Schema_result(_, _, _)
RECURSIVE Apply(_, _, _)
RECURSIVE All_steps(_, _, _, _)
RECURSIVE Any_steps(_, _, _, _, _)
RECURSIVE List_items(_, _, _, _, _)
RECURSIVE Dict_probe(_, _, _, _, _)
RECURSIVE Dict_usables(_, _, _, _, _)
RECURSIVE Dict_pairs(_, _, _, _, _)
RECURSIVE All_trace(_, _, _, _)
RECURSIVE Any_trace(_, _, _, _, _)

\* what a schema object called as a function does, seen by its caller
FromCall(r) == IF r.raised THEN Throw("AssertionError", r.msg) ELSE Gives(r.value)

\* f(x) for the callables of the model: the classes int and str, the caller's
\* functions, itemgetters and schema objects
Apply(f, x, now) ==
    CASE f.kind = "type" /\ f.name = "int" -> int_call(x)
      [] f.kind = "type" /\ f.name = "str" -> str_call(x)
      [] f.kind = "function" /\ f.name = "lt10" -> Compare("<", x, 10)
      [] f.kind = "function" /\ f.name = "gt5" -> Compare(">", x, 5)
      [] f.kind = "function" /\ f.name = "double" -> Double(x)
      [] f.kind = "function" /\ f.name = "get_a" -> GetItem(x, PyStr("a"))
      [] f.kind = "itemgetter" -> GetItem(x, f.key)
      [] IsSchemaABC(f) -> FromCall(Call(f, x, now))
      [] OTHER -> Throw("TypeError", get_spec_name(f) \o
                                     "() takes 0 positional arguments but 1 was given")

\* the try/except of Validate.__call__ around r, what self.schema(obj) did
Validate_ret(r) == IF r.threw THEN PyBool(FALSE) ELSE r.value

\* (mutant) the value that the callable returned replaces the input
Validate_check_returns_ret(self, obj_, ret) ==
    IF ~Truthy(ret) /\ ret # None
    THEN Raise(get_spec_name(self.spec) \o "(" \o Repr(obj_) \o ") should evaluate to True")
    ELSE Return(ret)

\* the check of Validate.__call__ on the value the callable returned
Validate_check(self, obj_, ret) ==
    IF ~Truthy(ret) /\ ret # None
    THEN Raise(get_spec_name(self.spec) \o "(" \o Repr(obj_) \o ") should evaluate to True")
    ELSE Return(obj_)

Validate_call(self, obj_, now) ==
    Validate_check(self, obj_, Validate_ret(Apply(self.schema, obj_, now)))

\* (mutant) the class of the exception is left out of the message
As_catch_no_class(self, obj_, r) ==
    IF r.threw
    THEN Raise(get_spec_name(self.spec) \o "(" \o Repr(obj_) \o
               ") should not raise an exception: " \o r.msg)
    ELSE Return(r.value)

\* the try/except of As.__call__ around r, what self.schema(obj) did
As_catch(self, obj_, r) ==
    IF r.threw
    THEN Raise(get_spec_name(self.spec) \o "(" \o Repr(obj_) \o
               ") should not raise an exception: " \o r.cls \o ": " \o r.msg)
    ELSE Return(r.value)

As_call(self, obj_, now) == As_catch(self, obj_, Apply(self.schema, obj_, now))

Select_call(self, obj_, now) ==
    IF Type_call(Select_validate_obj, obj_).raised THEN Type_call(Select_validate_obj, obj_)
    ELSE Call(self.schema, obj_, now)

\* the try/except of Schema.__call__ around r, what self.schema(obj) did
Schema_try(r) ==
    IF r.raised THEN SchemaResult(None, PyStr(r.msg))
    ELSE IF r.value.kind # "SchemaResult" THEN SchemaResult(r.value, None)
    ELSE r.value

\* Schema.__call__ up to the strict check: the SchemaResult of the call
Schema_result(self, obj_, now) == Schema_try(Call(self.schema, obj_, now))

\* (mutant) the loop goes on after a schema that reports an error
All_step_no_break(self, i, r, now) == All_steps(self, i + 1, r, now)

\* the body of the loop of All.__call__ once the i-th schema has returned r
All_step(self, i, r, now) ==
    IF Truthy(r.errors) THEN r ELSE All_steps(self, i + 1, r, now)

\* the loop of All.__call__ from the i-th schema on
All_steps(self, i, res, now) ==
    IF i > Len(self.schema.items) THEN res
    ELSE All_step(self, i, Schema_result(self.schema.items[i], res.data, now), now)

All_call(self, obj_, now) == Return(All_steps(self, 1, SchemaResult(obj_, None), now))

\* the i-th schema of All.__call__ was passed data and returned r: the record
\* of this invocation and of those that follow it
All_trace_step(self, i, data, r, now) ==
    <<[index |-> i, data |-> data, result |-> r]>> \o
    (IF Truthy(r.errors) THEN <<>> ELSE All_trace(self, i + 1, r, now))

\* the invocations that the loop of All.__call__ makes from the i-th schema on
All_trace(self, i, res, now) ==
    IF i > Len(self.schema.items) THEN <<>>
    ELSE All_trace_step(self, i, res.data,
                        Schema_result(self.schema.items[i], res.data, now), now)

\* (mutant) the loop stops at the first schema, whatever it reports
Any_step_first_only(self, i, r, obj_, now) == r

\* the body of the loop of Any.__call__ once the i-th schema has returned r
Any_step(self, i, r, obj_, now) ==
    IF ~Truthy(r.errors) THEN r ELSE Any_steps(self, i + 1, r, obj_, now)

\* the loop of Any.__call__ from the i-th schema on
Any_steps(self, i, res, obj_, now) ==
    IF i > Len(self.schema.items) THEN res
    ELSE Any_step(self, i,
                  Schema_result(self.schema.items[i],
                                IF res.data # None THEN res.data ELSE obj_, now),
                  obj_, now)

\* the i-th schema of Any.__call__ was passed data and returned r: the record
\* of this invocation and of those that follow it
Any_trace_step(self, i, data, r, obj_, now) ==
    <<[index |-> i, data |-> data, result |-> r]>> \o
    (IF ~Truthy(r.errors) THEN <<>> ELSE Any_trace(self, i + 1, r, obj_, now))

\* the invocations that the loop of Any.__call__ makes from the i-th schema on
Any_trace(self, i, res, obj_, now) ==
    IF i > Len(self.schema.items) THEN <<>>
    ELSE Any_trace_step(self, i, IF res.data # None THEN res.data ELSE obj_,
                        Schema_result(self.schema.items[i],
                                      IF res.data # None THEN res.data ELSE obj_, now),
                        obj_, now)

Any_call(self, obj_, now) == Return(Any_steps(self, 1, SchemaResult(obj_, None), obj_, now))

\* (mutant) only the data of elements without errors is appended
List_append_valid_only(i, r, acc) ==
    [data |-> IF r.data # None /\ ~Truthy(r.errors)
              THEN PyList(Append(acc.data.items, r.data))
              ELSE acc.data,
     errors |-> IF ~Truthy(r.errors) THEN acc.errors
                ELSE DictSet(acc.errors, PyInt(i - 1),
                             IF r.errors.kind = "str"
                             THEN PyStr("bad value: " \o r.errors.s)
                             ELSE r.errors)]

\* the body of the loop of List.__call__ once the element at index i - 1 has
\* returned r, on acc = [data, errors]
List_append(i, r, acc) ==
    [data |-> IF r.data # None THEN PyList(Append(acc.data.items, r.data))
              ELSE acc.data,
     errors |-> IF ~Truthy(r.errors) THEN acc.errors
                ELSE DictSet(acc.errors, PyInt(i - 1),
                             IF r.errors.kind = "str"
                             THEN PyStr("bad value: " \o r.errors.s)
                             ELSE r.errors)]

\* the loop of List.__call__ from the i-th element on
List_items(self, obj_, i, acc, now) ==
    IF i > Len(obj_.items) THEN acc
    ELSE List_items(self, obj_, i + 1,
                    List_append(i, All_call(self.schema, obj_.items[i], now).value, acc),
                    now)

\* (mutant) an empty data list is returned as it is
List_return_keep_empty(acc) == Return(SchemaResult(acc.data, acc.errors))

\* the end of List.__call__: no data when nothing loaded and there are errors
List_return(acc) ==
    Return(SchemaResult(IF ~Truthy(acc.data) /\ Truthy(acc.errors) THEN None ELSE acc.data,
                        acc.errors))

List_call(self, obj_, now) ==
    IF Type_call(List_validate_obj, obj_).raised THEN Type_call(List_validate_obj, obj_)
    ELSE List_return(List_items(self, obj_, 1,
                                [data |-> PyList(<<>>), errors |-> PyDict(<<>>)], now))

\* (mutant) the keys of the helpers are not computed before the loop
Dict_usables_skipped(self, obj_, i, acc, now) == acc

\* Dict._extend_with_usables from the i-th key schema on
Dict_usables(self, obj_, i, acc, now) ==
    IF i > Len(self.schema.items) THEN acc
    ELSE LET key_schema == self.schema.items[i].k
             value_schema == self.schema.items[i].v
         IN  IF value_schema.spec.kind \notin {"Use", "Select"}
             THEN Dict_usables(self, obj_, i + 1, acc, now)
             ELSE Dict_usables(self, obj_, i + 1,
                      Dict_extend_with_result(key_schema.spec,
                          Schema_result(value_schema, obj_, now),
                          [acc EXCEPT !.seen = @ \cup {key_schema}]), now)

\* the loop over the key schemas for an input key with no equal key schema,
\* from the i-th key schema on; found = [value_schemas, seen]
Dict_probe(self, key, i, found, now) ==
    IF i > Len(self.schema.items) THEN found
    ELSE LET key_schema == self.schema.items[i].k
             value_schema == self.schema.items[i].v
         IN  IF value_schema.spec.kind \in {"Use", "Select"}
             THEN Dict_probe(self, key, i + 1, found, now)
             ELSE IF ~Truthy(Schema_result(key_schema, key, now).errors)
             THEN Dict_probe(self, key, i + 1,
                      [value_schemas |->
                           IF \E j \in 1..Len(found.value_schemas) :
                                  PyEq(found.value_schemas[j], value_schema)
                           THEN found.value_schemas
                           ELSE Append(found.value_schemas, value_schema),
                       seen |-> found.seen \cup {key_schema}], now)
             ELSE Dict_probe(self, key, i + 1, found, now)

\* (mutant) the lookup of an equal key schema is left out
Dict_value_schemas_probe_only(self, key, seen, now) ==
    Dict_probe(self, key, 1, [value_schemas |-> <<>>, seen |-> seen], now)

\* the value schemas chosen for an input key, and the key schemas marked seen
Dict_value_schemas(self, key, seen, now) ==
    IF DictHas(self.schema, key)
    THEN [value_schemas |-> <<DictGet(self.schema, key)>>, seen |-> seen]
    ELSE Dict_probe(self, key, 1, [value_schemas |-> <<>>, seen |-> seen], now)

\* the result of the value schemas chosen for a key: the one schema's, or that
\* of an Any over them
Dict_value_result(value_schemas, value, now) ==
    IF Len(value_schemas) = 1 THEN Schema_result(value_schemas[1], value, now)
    ELSE Any_call(Any_new(PyTuple(value_schemas), now), value, now).value

\* the body of the loop of Dict.__call__ once the value schemas are found
Dict_evaluate(self, key, value, found, acc, now) ==
    IF Len(found.value_schemas) = 0
    THEN Dict_extra(self, key, value, [acc EXCEPT !.seen = found.seen])
    ELSE Dict_extend_with_result(key, Dict_value_result(found.value_schemas, value, now),
                                 [acc EXCEPT !.seen = found.seen])

\* the body of the loop of Dict.__call__ for one input pair
Dict_pair(self, key, value, acc, now) ==
    IF SetHas(acc.seen, key) THEN acc
    ELSE Dict_evaluate(self, key, value, Dict_value_schemas(self, key, acc.seen, now),
                       acc, now)

\* the loop of Dict.__call__ over the input pairs, from the i-th pair on
Dict_pairs(self, obj_, i, acc, now) ==
    IF i > Len(obj_.items) THEN acc
    ELSE Dict_pairs(self, obj_, i + 1,
                    Dict_pair(self, obj_.items[i].k, obj_.items[i].v, acc, now), now)

\* (mutant) the seen set is searched by identity, not by equality
Dict_missing_by_identity(self, seen) == {k \in self.required : k \notin seen}

\* self.required - seen
Dict_missing(self, seen) == {k \in self.required : ~SetHas(seen, k)}

\* the 'missing required key' errors, written in the order of the key schemas
Dict_missing_errors(self, seen, errors) ==
    LET n == Len(self.schema.items)
        step[i \in 0..n] ==
            IF i = 0 THEN errors
            ELSE IF self.schema.items[i].k \in Dict_missing(self, seen)
                 THEN DictSet(step[i - 1], self.schema.items[i].k.schema.spec,
                              PyStr("missing required key"))
                 ELSE step[i - 1]
    IN  step[n]

\* (mutant) the recorded defaults are not applied
Dict_apply_no_defaults(self, data) == data

\* data.setdefault(key, default) for each recorded default
Dict_apply_defaults(self, data) ==
    LET n == Len(self.defaults.items)
        step[i \in 0..n] ==
            IF i = 0 THEN data
            ELSE DictSetDefault(step[i - 1], self.defaults.items[i].k,
                                self.defaults.items[i].v)
    IN  step[n]

\* (mutant) empty data is given up only when there are errors
Dict_return_unless_errors(obj_, data, errors) ==
    Return(SchemaResult(IF ~Truthy(data) /\ Truthy(errors) THEN None ELSE data, errors))

\* the end of Dict.__call__: no data when it is empty and there are errors, or
\* differs from the input
Dict_return(obj_, data, errors) ==
    Return(SchemaResult(IF ~Truthy(data) /\ (Truthy(errors) \/ ~PyEq(data, obj_))
                        THEN None ELSE data,
                        errors))

\* (mutant) the defaults are applied only to an outcome without errors
Dict_finish_defaults_unless_errors(self, obj_, acc) ==
    Dict_return(obj_,
                IF Truthy(Dict_missing_errors(self, acc.seen, acc.errors)) THEN acc.data
                ELSE Dict_apply_defaults(self, acc.data),
                Dict_missing_errors(self, acc.seen, acc.errors))

\* Dict.__call__ after the loop over the input pairs
Dict_finish(self, obj_, acc) ==
    Dict_return(obj_, Dict_apply_defaults(self, acc.data),
                Dict_missing_errors(self, acc.seen, acc.errors))

Dict_call(self, obj_, now) ==
    IF Type_call(Dict_validate_obj, obj_).raised THEN Type_call(Dict_validate_obj, obj_)
    ELSE Dict_finish(self, obj_,
             Dict_pairs(self, obj_, 1,
                 Dict_usables(self, obj_, 1,
                     [data |-> PyDict(<<>>), errors |-> PyDict(<<>>), seen |-> {}], now),
                 now))

Call(self, obj_, now) ==
    CASE self.kind = "Schema" -> Return(Schema_result(self, obj_, now))
      [] self.kind = "Type" -> Type_call(self, obj_)
      [] self.kind = "Value" -> Value_call(self, obj_)
      [] self.kind = "Optional" -> Optional_call(self, obj_)
      [] self.kind = "Use" -> Use_call(self, now)
      [] self.kind = "List" -> List_call(self, obj_, now)
      [] self.kind = "Dict" -> Dict_call(self, obj_, now)
      [] self.kind = "All" -> All_call(self, obj_, now)
      [] self.kind = "Any" -> Any_call(self, obj_, now)
      [] self.kind = "Validate" -> Validate_call(self, obj_, now)
      [] self.kind = "As" -> As_call(self, obj_, now)
      [] self.kind = "Select" -> Select_call(self, obj_, now)

\* SchemaError(message, errors, data, original_data)
SchemaError(message, errors, data, original_data) ==
    [kind |-> "SchemaError", message |-> message, errors |-> errors, data |-> data,
     original_data |-> original_data]

\* (mutant) the flag given at construction is not overridden by the call
Schema_strict_flag_wins(self, obj_, strict, res) ==
    IF (self.strict \/ Truthy(strict)) /\ Truthy(res.errors)
    THEN [raised |-> TRUE, msg |-> "Schema validation failed",
          value |-> SchemaError("Schema validation failed", res.errors, res.data, obj_)]
    ELSE Return(res)

\* the strict check of Schema.__call__ on the result res
Schema_strict(self, obj_, strict, res) ==
    IF (IF strict = NotSet THEN self.strict ELSE Truthy(strict)) /\ Truthy(res.errors)
    THEN [raised |-> TRUE, msg |-> "Schema validation failed",
          value |-> SchemaError("Schema validation failed", res.errors, res.data, obj_)]
    ELSE Return(res)

\* Schema.__call__(obj, strict)
Schema_call(self, obj_, strict, now) ==
    Schema_strict(self, obj_, strict, Schema_result(self, obj_, now))

(***************************************************************************)
(* The caller: bounded sets of specs and of inputs.                        *)
(***************************************************************************)
SeqsUpTo(S, n) == UNION {[1..m -> S] : m \in 0..n}

Pairs(K, V) == {KV(k, v) : k \in K, v \in V}

\* the dicts written with at most n of the given pairs
DictsOf(P, n) == {OrderedDict(ps) : ps \in SeqsUpTo(P, n)}

\* the lists of at most n of the given elements
ListsOf(E, n) == {PyList(es) : es \in SeqsUpTo(E, n)}

str == PyType("str")

int == PyType("int")

Extras == {ALLOW_EXTRA, DENY_EXTRA, IGNORE_EXTRA}

\* the caller's default generator
counter == PyFunc("counter")

\* key specs of the dict specs: literals, types, tuples of types, Optional
KeySpecs ==
    {PyStr("a"), str, PyTuple(<<str, int>>),
     Optional_new(PyStr("a"), NotSet), Optional_new(PyStr("a"), PyInt(5)),
     Optional_new(PyStr("a"), counter), Optional_new(str, PyInt(5))}

ValueSpecs == {int, str}

DictSpecs == DictsOf(Pairs(KeySpecs, ValueSpecs), MaxSpecKeys)

\* input keys: strings, an int, a type, tuples of types
InputKeys == {PyStr("a"), PyStr("b"), PyInt(1), str, PyTuple(<<str>>), PyTuple(<<str, int>>)}

InputValues == {PyInt(1), PyStr("b")}

DictInputs == DictsOf(Pairs(InputKeys, InputValues), MaxKeys) \cup {PyInt(1)}

\* sequence specs: element specs that load, fail, load nothing, load partially
ListElementSpecs ==
    {int, str, None,
     OrderedDict(<<KV(PyStr("a"), int)>>),
     OrderedDict(<<KV(PyStr("a"), int), KV(PyStr("b"), int)>>)}

ListSpecs ==
    {PyList(<<s>>) : s \in ListElementSpecs} \cup {PyList(<<>>), PyList(<<int, str>>)}

ListElements ==
    {PyInt(1), PyStr("b"), None,
     OrderedDict(<<KV(PyStr("a"), PyInt(1))>>),
     OrderedDict(<<KV(PyStr("a"), PyInt(1)), KV(PyStr("b"), PyInt(2))>>),
     OrderedDict(<<KV(PyStr("a"), PyInt(1)), KV(PyStr("b"), PyStr("x"))>>)}

ListInputs == ListsOf(ListElements, MaxLen) \cup {PyInt(1)}

\* specs whose default is a static value or the caller's generator
DefaultSpecs ==
    {OrderedDict(<<KV(Optional_new(PyStr("x"), d), v)>>) : d \in {PyInt(5), counter},
                                                           v \in ValueSpecs}

DefaultInputs ==
    DictsOf(Pairs({PyStr("x")}, InputValues), 1)

\* a mapping spec nested in mappings, sequences and combinators
InnerSpec == OrderedDict(<<KV(PyStr("b"), int)>>)

NestedSpecs ==
    {OrderedDict(<<KV(PyStr("a"), InnerSpec)>>),
     OrderedDict(<<KV(PyStr("a"), OrderedDict(<<KV(PyStr("a"), InnerSpec)>>))>>),
     PyList(<<InnerSpec>>),
     OrderedDict(<<KV(PyStr("a"), PyList(<<InnerSpec>>))>>),
     All_new(PyTuple(<<InnerSpec>>), 0),
     Any_new(PyTuple(<<InnerSpec>>), 0)}

\* mappings for the inner spec, with and without the key 'c' it does not name
InnerInputs ==
    {OrderedDict(<<KV(PyStr("b"), PyInt(1))>>),
     OrderedDict(<<KV(PyStr("b"), PyInt(1)), KV(PyStr("c"), PyInt(2))>>),
     OrderedDict(<<KV(PyStr("c"), PyInt(2))>>),
     OrderedDict(<<KV(PyStr("b"), PyStr("x")), KV(PyStr("c"), PyInt(2))>>)}

RECURSIVE NestedInputs(_)
\* inputs of the shape of a nested spec
NestedInputs(spec) ==
    CASE spec = InnerSpec -> InnerInputs
      [] spec.kind = "dict" /\ spec # InnerSpec ->
            {OrderedDict(<<KV(spec.items[1].k, x)>>) : x \in NestedInputs(spec.items[1].v)}
      [] spec.kind = "list" -> ListsOf(NestedInputs(spec.items[1]), MaxLen)
      [] spec.kind \in {"All", "Any"} -> NestedInputs(spec.spec.items[1])

\* value specs of the key schemas that overlap: a type and mappings
OverlapValueSpecs ==
    {int,
     OrderedDict(<<KV(PyStr("x"), int)>>),
     OrderedDict(<<KV(PyStr("y"), str)>>),
     OrderedDict(<<KV(PyStr("x"), int), KV(Optional_new(PyStr("y"), NotSet), int)>>)}

\* specs whose two type key schemas both accept a string key, and of which
\* at least one value spec is a mapping
OverlapSpecs ==
    {OrderedDict(<<KV(str, v), KV(PyTuple(<<str, int>>), w)>>) :
        v \in OverlapValueSpecs, w \in OverlapValueSpecs} \ DictSpecs

OverlapValues ==
    {PyInt(1), PyStr("b"),
     OrderedDict(<<KV(PyStr("x"), PyInt(1))>>),
     OrderedDict(<<KV(PyStr("y"), PyStr("s"))>>),
     OrderedDict(<<KV(PyStr("x"), PyInt(1)), KV(PyStr("y"), PyStr("bad"))>>)}

OverlapInputs == DictsOf(Pairs({PyStr("k"), PyInt(1)}, OverlapValues), 1)

\* the caller's predicates and transforms
lt10 == PyFunc("lt10")

gt5 == PyFunc("gt5")

double == PyFunc("double")

get_a == PyFunc("get_a")

\* the specs of the schemas of a pipeline: type checks, a predicate, transforms
AllNodeSpecs == {int, str, lt10, As_new(int), As_new(str)}

AllSpecs == {All_new(PyTuple(specs), 0) : specs \in SeqsUpTo(AllNodeSpecs, MaxNodes)}

AllInputs == {PyInt(1), PyInt(15), PyStr("1"), PyStr("a")}

\* the specs of the alternatives: predicates, a type check, and mappings of
\* which one loads a part of what another accepts
AnyNodeSpecs ==
    {lt10, gt5, int,
     OrderedDict(<<KV(PyStr("x"), int)>>),
     OrderedDict(<<KV(PyStr("y"), str)>>),
     OrderedDict(<<KV(PyStr("x"), int), KV(Optional_new(PyStr("y"), NotSet), int)>>)}

AnySpecs == {Any_new(PyTuple(specs), 0) : specs \in SeqsUpTo(AnyNodeSpecs, MaxNodes)}

AnyInputs ==
    {PyInt(4), PyInt(7), PyInt(15), PyStr("s"),
     OrderedDict(<<KV(PyStr("x"), PyInt(1))>>),
     OrderedDict(<<KV(PyStr("y"), PyStr("s"))>>),
     OrderedDict(<<KV(PyStr("x"), PyInt(1)), KV(PyStr("y"), PyStr("bad"))>>)}

\* the specs evaluated in strict mode: mappings and a sequence of mappings
StrictSpecs ==
    {OrderedDict(<<KV(PyStr("s"), int)>>),
     OrderedDict(<<KV(PyStr("s"), int), KV(Optional_new(PyStr("t"), NotSet), str)>>),
     PyList(<<OrderedDict(<<KV(PyStr("s"), int)>>)>>)}

StrictInputs ==
    {PyInt(5), PyList(<<>>),
     OrderedDict(<<>>),
     OrderedDict(<<KV(PyStr("s"), PyInt(1))>>),
     OrderedDict(<<KV(PyStr("s"), PyStr("x"))>>),
     OrderedDict(<<KV(PyStr("s"), PyInt(1)), KV(PyStr("t"), PyInt(2))>>),
     OrderedDict(<<KV(PyStr("s"), PyInt(1)), KV(PyStr("u"), PyInt(2))>>),
     PyList(<<OrderedDict(<<KV(PyStr("s"), PyInt(1))>>)>>),
     PyList(<<OrderedDict(<<KV(PyStr("s"), PyInt(1))>>),
              OrderedDict(<<KV(PyStr("s"), PyStr("x"))>>)>>)}

\* specs made of the caller's callables: predicates, transforms, selections
CallableSpecs ==
    {lt10, gt5, Validate_new(lt10), Validate_new(int), Validate_new(str),
     As_new(int), As_new(str), As_new(double), As_new(As_new(int)),
     Select_new(PyStr("a"), NotSet, 0), Select_new(get_a, NotSet, 0),
     Select_new(PyStr("a"), double, 0), Select_new(PyStr("a"), int, 0),
     OrderedDict(<<KV(PyStr("k"), Select_new(PyStr("a"), NotSet, 0))>>),
     OrderedDict(<<KV(PyStr("k"), Select_new(PyStr("a"), int, 0))>>)}

CallableInputs ==
    {PyInt(0), PyInt(1), PyInt(7), PyInt(15), PyStr("1"), PyStr("a"), None, PyList(<<>>),
     OrderedDict(<<>>),
     OrderedDict(<<KV(PyStr("a"), PyInt(5))>>),
     OrderedDict(<<KV(PyStr("a"), PyStr("x"))>>),
     OrderedDict(<<KV(PyStr("a"), None)>>),
     OrderedDict(<<KV(PyStr("b"), PyInt(10))>>)}

\* literal specs: strings, numbers, booleans, None
ValueLiterals ==
    {PyStr("a"), PyStr("1"), PyStr(""), PyInt(1), PyInt(0), PyInt(15),
     PyBool(TRUE), PyBool(FALSE), None}

\* inputs of the literal schemas: the literals, and objects of other classes
ValueInputs ==
    ValueLiterals \cup {int, PyList(<<>>), PyList(<<PyInt(1)>>),
                        OrderedDict(<<KV(PyStr("a"), PyInt(1))>>)}

\* the classes of the type specs
Types ==
    {int, str, PyType("bool"), PyType("list"), PyType("Mapping"), PyType("NoneType"),
     PyType("type"), PyType("object")}

\* type specs: a class, or a tuple of classes
TypeSpecs ==
    Types \cup {PyTuple(ts) : ts \in UNION {[1..m -> Types \ {PyType("object")}] :
                                              m \in 1..MaxTypes}}

\* inputs of the type schemas: instances of the classes, and classes
TypeInputs ==
    {PyInt(1), PyBool(TRUE), PyStr("a"), None, PyList(<<>>), OrderedDict(<<>>), int, str, lt10}

\* specs of every shape that Schema.compile tells apart: schema objects, a
\* list, a dict, classes and a tuple of classes, callables, literals
CompileSpecs ==
    {Schema_new(PyType("dict"), FALSE, IGNORE_EXTRA, 0),
     Schema_new(PyStr("z"), FALSE, IGNORE_EXTRA, 0),
     Type_new(PyType("dict")), Value_new(PyStr("z")), Use_new(PyInt(5)),
     As_new(lt10), Validate_new(double), Any_new(PyTuple(<<str, None>>), 0),
     PyList(<<PyStr("z")>>),
     OrderedDict(<<KV(PyStr("z"), str)>>),
     PyType("dict"), PyType("tuple"), PyTuple(<<PyType("dict"), PyType("tuple")>>),
     double, get_a, itemgetter(PyStr("z")),
     PyStr("z"), PyInt(7)}

CompileInputs ==
    {PyInt(5), PyInt(7), PyStr("z"), None,
     PyList(<<PyStr("z")>>),
     OrderedDict(<<KV(PyStr("z"), PyStr("s"))>>),
     OrderedDict(<<KV(PyStr("a"), PyInt(1))>>),
     PyTuple(<<PyInt(5)>>)}

\* the helpers that compute the value of a key: constants, the caller's
\* generator, selections of a field
UseHelpers ==
    {Use_new(PyInt(5)), Use_new(counter), Use_new(None),
     Select_new(PyStr("a"), NotSet, 0), Select_new(get_a, NotSet, 0)}

\* the key specs of the computed keys
UseKeySpecs ==
    {PyStr("k"), Optional_new(PyStr("k"), NotSet), Optional_new(PyStr("k"), PyInt(1)), str}

\* mapping specs with a computed key, alone or before or after a key schema
\* that accepts every string key
UseSpecs ==
    ({OrderedDict(<<KV(k, h)>>) : k \in UseKeySpecs, h \in UseHelpers} \cup
     {OrderedDict(<<KV(k, h), KV(str, int)>>) : k \in UseKeySpecs \ {str}, h \in UseHelpers} \cup
     {OrderedDict(<<KV(str, int), KV(k, h)>>) : k \in UseKeySpecs \ {str}, h \in UseHelpers})
    \ CallableSpecs

\* inputs with and without the computed key, and an input that is no mapping
UseInputs ==
    DictsOf(Pairs({PyStr("k"), PyStr("a"), str}, {PyInt(1), PyStr("s")}), MaxKeys) \cup
    {PyInt(1)}

\* a constructor call of the caller
New(cls, args) == [cls |-> cls, args |-> args]

float == PyType("float")

\* constructor calls with specs of the right and of the wrong shape
ConfigCalls ==
    {New("Type", <<x>>) : x \in {float, PyTuple(<<float, str>>), PyInt(1), PyStr("a"),
                                 PyTuple(<<int, PyInt(1)>>), PyList(<<int>>), lt10}} \cup
    {New("List", <<x>>) : x \in {PyList(<<float>>), PyList(<<PyTuple(<<PyInt(1)>>)>>),
                                 PyDict(<<>>), PyTuple(<<int>>), int, PyStr("a")}} \cup
    {New("Dict", <<x>>) : x \in {OrderedDict(<<KV(PyStr("a"), float)>>),
                                 OrderedDict(<<KV(PyStr("a"), PyTuple(<<int, PyInt(1)>>))>>),
                                 PyList(<<>>), int, PyStr("a"), None}} \cup
    {New(c, <<x>>) : c \in {"Validate", "As"},
                     x \in {gt5, get_a, itemgetter(PyStr("b")), PyInt(1), PyStr("a"), None,
                            PyList(<<>>)}} \cup
    {New("Select", xs) : xs \in {<<>>, <<PyStr("b")>>, <<None>>, <<double>>,
                                 <<PyStr("b"), double>>, <<PyStr("a"), PyInt(1)>>,
                                 <<None, None>>, <<PyStr("a"), PyStr("b")>>,
                                 <<double, PyInt(1)>>}} \cup
    {New("Schema", <<x>>) : x \in {PyTuple(<<float, str>>), PyTuple(<<PyInt(1)>>),
                                   PyList(<<PyTuple(<<PyInt(1), PyInt(2)>>)>>),
                                   OrderedDict(<<KV(PyTuple(<<PyStr("a"), PyStr("b")>>), int)>>),
                                   OrderedDict(<<KV(PyStr("a"), PyList(<<PyTuple(<<int, PyInt(1)>>)>>))>>),
                                   OrderedDict(<<KV(PyStr("a"), PyTuple(<<float>>))>>)}}

\* the specs of the schemas that these calls construct
ConfigSpecs ==
    {init_object(c.cls, c.args) : c \in {d \in ConfigCalls : init_error(d.cls, d.args) = ""}}

ConfigInputs ==
    {PyInt(1), PyInt(7), PyStr("a"), None, PyList(<<PyInt(1)>>),
     OrderedDict(<<KV(PyStr("a"), PyInt(1))>>),
     OrderedDict(<<KV(PyStr("b"), PyInt(2))>>),
     OrderedDict(<<KV(None, PyInt(3))>>)}

\* Schema objects that the caller builds first, with each strict flag and
\* each extra policy
EmbeddedSchemas ==
    {Schema_new(r, st, e, 0) :
        r \in {OrderedDict(<<KV(PyStr("a"), int), KV(PyStr("b"), str)>>),
               OrderedDict(<<KV(PyStr("b"), int)>>)},
        st \in BOOLEAN, e \in Extras}

\* specs that are such a Schema object, or a mapping with one as a value
EmbeddedSpecs ==
    EmbeddedSchemas \cup
    {OrderedDict(<<KV(k, i)>>) : k \in {PyStr("a"), str}, i \in EmbeddedSchemas}

\* inputs of the embedded schemas: valid, failing, with a key they do not name
EmbeddedInner ==
    {PyInt(1), OrderedDict(<<>>),
     OrderedDict(<<KV(PyStr("b"), PyStr("1"))>>),
     OrderedDict(<<KV(PyStr("b"), PyInt(1))>>),
     OrderedDict(<<KV(PyStr("a"), PyInt(2)), KV(PyStr("b"), PyStr("2"))>>),
     OrderedDict(<<KV(PyStr("b"), PyInt(1)), KV(PyStr("c"), PyInt(2))>>),
     OrderedDict(<<KV(PyStr("b"), PyStr("1")), KV(PyStr("c"), PyInt(2))>>)}

EmbeddedInputs(spec) ==
    IF spec.kind = "Schema" THEN EmbeddedInner
    ELSE {OrderedDict(<<KV(k, x)>>) : k \in {PyStr("a"), PyStr("x")}, x \in EmbeddedInner} \cup
         {OrderedDict(<<KV(PyStr("x"), OrderedDict(<<KV(PyStr("b"), PyStr("1"))>>)),
                        KV(PyStr("y"), OrderedDict(<<KV(PyStr("a"), PyInt(2)),
                                                     KV(PyStr("b"), PyStr("2"))>>))>>)}

\* specs of the schemas that several callers share: mappings with required
\* keys, a default and a type key, and a sequence of mappings
SharedSpecs ==
    {OrderedDict(<<KV(PyStr("p"), int), KV(PyStr("q"), str)>>),
     OrderedDict(<<KV(PyStr("p"), int), KV(Optional_new(PyStr("q"), PyInt(5)), str)>>),
     OrderedDict(<<KV(PyStr("p"), int), KV(str, str)>>),
     PyList(<<OrderedDict(<<KV(PyStr("p"), int)>>)>>)}

SharedInputs(spec) ==
    IF spec.kind = "dict"
    THEN DictsOf(Pairs({PyStr("p"), PyStr("q")}, {PyInt(1), PyStr("s")}), MaxKeys) \cup
         {PyInt(1)}
    ELSE ListsOf({PyInt(1), OrderedDict(<<KV(PyStr("p"), PyInt(1))>>),
                  OrderedDict(<<KV(PyStr("p"), PyStr("s"))>>)}, MaxLen) \cup {PyInt(1)}

\* the element specs of the sequence specs with two element specs: type
\* checks, a predicate, transforms
PipelineNodeSpecs == {int, str, lt10, As_new(int), As_new(str)}

\* sequence specs with no element spec and with two
PipelineSpecs ==
    {PyList(<<>>)} \cup {PyList(<<a, b>>) : a \in PipelineNodeSpecs, b \in PipelineNodeSpecs}

PipelineInputs ==
    ListsOf({PyInt(1), PyInt(15), PyStr("1"), PyStr("a"), None}, MaxLen) \cup {PyInt(1)}

\* the inputs the caller passes to a schema
\* (no call is made when the construction raised)
Inputs(self) ==
    IF self.kind = "TypeError" THEN {}
    ELSE
        CASE self.spec \in ListSpecs -> ListInputs
          [] self.spec \in ConfigSpecs -> ConfigInputs
          [] self.spec \in UseSpecs -> UseInputs
          [] self.spec \in PipelineSpecs \ ListSpecs -> PipelineInputs
          [] self.spec \in SharedSpecs -> SharedInputs(self.spec)
          [] self.spec \in EmbeddedSpecs -> EmbeddedInputs(self.spec)
          [] self.spec \in CompileSpecs -> CompileInputs
          [] self.spec \in TypeSpecs -> TypeInputs
          [] self.spec \in ValueLiterals -> ValueInputs
          [] self.spec \in CallableSpecs -> CallableInputs
          [] self.spec \in StrictSpecs -> StrictInputs
          [] self.spec \in AnySpecs -> AnyInputs
          [] self.spec \in AllSpecs -> AllInputs
          [] self.spec \in OverlapSpecs -> OverlapInputs
          [] self.spec \in NestedSpecs -> NestedInputs(self.spec)
          [] self.spec \in DefaultSpecs -> DefaultInputs
          [] OTHER -> DictInputs

\* the strict arguments the caller passes
StrictArgs == {NotSet}

\* the strict arguments the caller passes to a schema of the strict family:
\* none, True, False and the falsy None
StrictArgsOf(self) ==
    IF self.kind = "TypeError" THEN {}
    ELSE IF self.spec \in StrictSpecs THEN {NotSet, PyBool(TRUE), PyBool(FALSE), None}
    ELSE StrictArgs

(***************************************************************************)
(* The state machine: a schema is constructed, then called.                *)
(***************************************************************************)
\* the callers of a shared schema, and the frame of a caller with no call in
\* progress
Callers == 1..MaxCallers

Idle == [i |-> 0]

Construct(specs, extras, calls) ==
    /\ schema \in {Schema_new(s, FALSE, e, 0) : s \in specs, e \in extras}
    /\ log = <<>>
    /\ calls_left = calls
    /\ frames = [c \in Callers |-> Idle]

\* schema(obj, strict): the call is logged with what it returned or raised
Evaluate(obj_, strict) ==
    /\ calls_left > 0
    /\ log' = Append(log, [obj |-> obj_, strict |-> strict,
                           out |-> Schema_call(schema, obj_, strict, Len(log) + 1)])
    /\ calls_left' = calls_left - 1
    /\ UNCHANGED <<schema, frames>>

Next == \E o \in Inputs(schema), s \in StrictArgsOf(schema) : Evaluate(o, s)

InitDict == Construct(DictSpecs, Extras, MaxCalls)

SpecDict == InitDict /\ [][Next]_vars

InitList == Construct(ListSpecs, Extras, MaxCalls)

SpecList == InitList /\ [][Next]_vars

InitNested == Construct(NestedSpecs, Extras, MaxCalls)

SpecNested == InitNested /\ [][Next]_vars

InitOverlap == Construct(OverlapSpecs, Extras, MaxCalls)

SpecOverlap == InitOverlap /\ [][Next]_vars

InitDefault == Construct(DefaultSpecs, Extras, MaxDefaultCalls)

SpecDefault == InitDefault /\ [][Next]_vars

InitAll == Construct(AllSpecs, {IGNORE_EXTRA}, MaxCalls)

SpecAll == InitAll /\ [][Next]_vars

\* Schema(spec, strict=..., extra=...) with either value of the strict flag
InitStrict ==
    /\ schema \in {Schema_new(s, b, e, 0) : s \in StrictSpecs, b \in BOOLEAN, e \in Extras}
    /\ log = <<>>
    /\ calls_left = MaxCalls
    /\ frames = [c \in Callers |-> Idle]

SpecStrict == InitStrict /\ [][Next]_vars

InitCallable == Construct(CallableSpecs, {IGNORE_EXTRA}, MaxCalls)

SpecCallable == InitCallable /\ [][Next]_vars

InitValue == Construct(ValueLiterals, {IGNORE_EXTRA}, MaxCalls)

SpecValue == InitValue /\ [][Next]_vars

InitType == Construct(TypeSpecs, {IGNORE_EXTRA}, MaxCalls)

SpecType == InitType /\ [][Next]_vars

InitCompile == Construct(CompileSpecs, {IGNORE_EXTRA}, MaxCalls)

SpecCompile == InitCompile /\ [][Next]_vars

InitAny == Construct(AnySpecs, {IGNORE_EXTRA}, MaxCalls)

SpecAny == InitAny /\ [][Next]_vars

InitUse == Construct(UseSpecs, Extras, MaxCalls)

SpecUse == InitUse /\ [][Next]_vars

InitPipeline == Construct(PipelineSpecs, {IGNORE_EXTRA}, MaxCalls)

SpecPipeline == InitPipeline /\ [][Next]_vars

(***************************************************************************)
(* Several callers call one schema at the same time.  A call of            *)
(* Dict.__call__ or List.__call__ is a sequence of steps, one for each     *)
(* pair or element of its input; the steps of the callers interleave.      *)
(* frames[c] holds the local variables of the call of caller c.            *)
(***************************************************************************)
\* the _validate_obj of the class of a node
validate_obj(self) == IF self.kind = "Dict" THEN Dict_validate_obj ELSE List_validate_obj

\* the local variables as the loop over the input starts
Begin_acc(self, obj_, now) ==
    IF self.kind = "Dict"
    THEN Dict_usables(self, obj_, 1,
                      [data |-> PyDict(<<>>), errors |-> PyDict(<<>>), seen |-> {}], now)
    ELSE [data |-> PyList(<<>>), errors |-> PyDict(<<>>)]

\* the entry of the log for a call that has returned r or raised
Logged(f, r) ==
    [obj |-> f.obj, strict |-> f.strict, now |-> f.now,
     out |-> Schema_strict(schema, f.obj, f.strict, Schema_try(r))]

\* caller c calls schema(obj, strict): the input is type-checked, which ends
\* the call when it fails, and the local variables are set up
Begin(c, obj_, strict) ==
    /\ calls_left > 0
    /\ frames[c] = Idle
    /\ calls_left' = calls_left - 1
    /\ LET f == [obj |-> obj_, strict |-> strict, i |-> 1,
                 now |-> MaxSharedCalls - calls_left + 1,
                 acc |-> Begin_acc(schema.schema, obj_, MaxSharedCalls - calls_left + 1)]
       IN  IF Type_call(validate_obj(schema.schema), obj_).raised
           THEN /\ log' = Append(log, Logged([obj |-> obj_, strict |-> strict,
                                              now |-> MaxSharedCalls - calls_left + 1],
                                             Type_call(validate_obj(schema.schema), obj_)))
                /\ UNCHANGED frames
           ELSE /\ frames' = [frames EXCEPT ![c] = f]
                /\ UNCHANGED log
    /\ UNCHANGED schema

\* one pass of the loop of the call of caller c
Step(c) ==
    /\ frames[c] # Idle
    /\ frames[c].i <= Len(frames[c].obj.items)
    /\ LET f == frames[c]
           item == f.obj.items[f.i]
       IN  frames' = [frames EXCEPT ![c] =
              [f EXCEPT !.i = @ + 1,
                        !.acc = IF schema.schema.kind = "Dict"
                                THEN Dict_pair(schema.schema, item.k, item.v, f.acc, f.now)
                                ELSE List_append(f.i, All_call(schema.schema.schema, item,
                                                               f.now).value, f.acc)]]
    /\ UNCHANGED <<schema, log, calls_left>>

\* (mutant) the keys that were seen are taken out of the required set of the
\* compiled Dict
End_consumes_required(c) ==
    /\ frames[c] # Idle
    /\ frames[c].i > Len(frames[c].obj.items)
    /\ LET f == frames[c]
       IN  /\ log' = Append(log, Logged(f, IF schema.schema.kind = "Dict"
                                           THEN Dict_finish(schema.schema, f.obj, f.acc)
                                           ELSE List_return(f.acc)))
           /\ schema' = IF schema.schema.kind = "Dict"
                        THEN [schema EXCEPT !.schema.required =
                                                Dict_missing(schema.schema, f.acc.seen)]
                        ELSE schema
    /\ frames' = [frames EXCEPT ![c] = Idle]
    /\ UNCHANGED calls_left

\* the call of caller c leaves the loop and returns
End(c) ==
    /\ frames[c] # Idle
    /\ frames[c].i > Len(frames[c].obj.items)
    /\ LET f == frames[c]
       IN  log' = Append(log, Logged(f, IF schema.schema.kind = "Dict"
                                        THEN Dict_finish(schema.schema, f.obj, f.acc)
                                        ELSE List_return(f.acc)))
    /\ frames' = [frames EXCEPT ![c] = Idle]
    /\ UNCHANGED <<schema, calls_left>>

NextShared ==
    \E c \in Callers :
        \/ \E o \in Inputs(schema), s \in StrictArgsOf(schema) : Begin(c, o, s)
        \/ Step(c)
        \/ End(c)

InitShared == Construct(SharedSpecs, Extras, MaxSharedCalls)

SpecShared == InitShared /\ [][NextShared]_vars

InitEmbedded == Construct(EmbeddedSpecs, Extras, MaxCalls)

SpecEmbedded == InitEmbedded /\ [][Next]_vars

\* the caller constructs a schema from a constructor call; the construction
\* may raise
InitConfig ==
    /\ schema \in {Schema_init(c, e) : c \in ConfigCalls, e \in Extras}
    /\ log = <<>>
    /\ calls_left = MaxCalls
    /\ frames = [c \in Callers |-> Idle]

SpecConfig == InitConfig /\ [][Next]_vars

(***************************************************************************)
(* Vocabulary of the properties.                                           *)
(***************************************************************************)
Calls == 1..Len(log)

\* the SchemaResult of the n-th call
ResultOf(n) == log[n].out.value

\* the n-th call was a mapping passed to a structural schema
DictCall(n) == schema.schema.kind = "Dict" /\ log[n].obj.kind = "dict"

KeySchemas == schema.schema.schema.items

\* the key schema compares by equality (a literal), not by type
IsLiteralKey(key_schema) == Unwrap(key_schema).kind # "tuple"

\* the types of a type key schema accept the key
TypeKeyAccepts(key_schema, key) ==
    ~IsLiteralKey(key_schema) /\ IsInstance(key, Unwrap(key_schema))

\* the error a Dict or List stores for a sub-result
Wrapped(errors) ==
    IF errors.kind = "str" THEN PyStr("bad value: " \o errors.s) ELSE errors

HasEntry(d, k, v) == d.kind = "dict" /\ DictHas(d, k) /\ DictGet(d, k) = v

MissingRequired == PyStr("missing required key")

(***************************************************************************)
(* C1: in a structural schema, an input key equal to a literal key schema  *)
(* has its value evaluated against that key schema's value schema only:    *)
(* the outcome holds that evaluation's data or error under the key, and a  *)
(* required type key schema that accepts the key but is matched by no      *)
(* other input key is reported as a missing required key.                  *)
(***************************************************************************)
C1_OtherKeyMarks(n, i, key_schema) ==
    \E j \in 1..Len(log[n].obj.items) :
        /\ j # i
        /\ LET k2 == log[n].obj.items[j].k
           IN  \/ PyEq(k2, key_schema)
               \/ (~DictHas(schema.schema.schema, k2) /\ TypeKeyAccepts(key_schema, k2))

C1_ExactLiteral ==
    \A n \in Calls : DictCall(n) =>
        \A i \in 1..Len(log[n].obj.items) : \A s \in 1..Len(KeySchemas) :
            LET key == log[n].obj.items[i].k
                value == log[n].obj.items[i].v
                r == Schema_result(KeySchemas[s].v, value, n)
            IN  (IsLiteralKey(KeySchemas[s].k) /\ PyEq(key, KeySchemas[s].k)) =>
                  /\ IF Truthy(r.errors)
                     THEN HasEntry(ResultOf(n).errors, key, Wrapped(r.errors))
                     ELSE ~DictHas(ResultOf(n).errors, key)
                  /\ (r.data # None \/ ~Truthy(r.errors)) =>
                        HasEntry(ResultOf(n).data, key, r.data)
                  /\ \A t \in 1..Len(KeySchemas) :
                        ( /\ KeySchemas[t].k \in schema.schema.required
                          /\ TypeKeyAccepts(KeySchemas[t].k, key)
                          /\ ~C1_OtherKeyMarks(n, i, KeySchemas[t].k) ) =>
                        HasEntry(ResultOf(n).errors, KeySchemas[t].k.schema.spec,
                                 MissingRequired)

\* {'a': int, str: str} on {'a': 'b'}: a bad value for 'a', str missing
C1_Witness ==
    \E n \in Calls :
        /\ schema.spec = PyDict(<<KV(PyStr("a"), int), KV(str, str)>>)
        /\ log[n].obj = PyDict(<<KV(PyStr("a"), PyStr("b"))>>)
        /\ ResultOf(n).data = None
        /\ PyEq(ResultOf(n).errors,
                PyDict(<<KV(PyStr("a"), PyStr("bad value: type error, expected int but found str")),
                         KV(str, MissingRequired)>>))

(***************************************************************************)
(* C2: when an input key has no equal key schema and validates against     *)
(* several key schemas, its value is evaluated against the value schemas   *)
(* of all of them in the schema's key order: the pair succeeds if at least *)
(* one of these value schemas accepts the value, and if none does the      *)
(* error reported under the key is the last one's.                         *)
(***************************************************************************)
\* the key schemas the key validates against, when none equals it
C2_Matching(n, key) ==
    IF \E t \in 1..Len(KeySchemas) : PyEq(key, KeySchemas[t].k) THEN {}
    ELSE {s \in 1..Len(KeySchemas) : ~Truthy(Schema_result(KeySchemas[s].k, key, n).errors)}

C2_Outcome(n, s, value) == Schema_result(KeySchemas[s].v, value, n)

C2_Min(S) == CHOOSE s \in S : \A t \in S : s <= t

C2_Max(S) == CHOOSE s \in S : \A t \in S : t <= s

C2_PairHolds(n, key, value) ==
    LET matching == C2_Matching(n, key)
        accepting == {s \in matching : ~Truthy(C2_Outcome(n, s, value).errors)}
    IN  Cardinality(matching) > 1 =>
          IF accepting # {}
          THEN /\ ~DictHas(ResultOf(n).errors, key)
               /\ HasEntry(ResultOf(n).data, key,
                           C2_Outcome(n, C2_Min(accepting), value).data)
          ELSE HasEntry(ResultOf(n).errors, key,
                        Wrapped(C2_Outcome(n, C2_Max(matching), value).errors))

C2_AnyOverCandidates ==
    \A n \in Calls : DictCall(n) =>
        \A i \in 1..Len(log[n].obj.items) :
            C2_PairHolds(n, log[n].obj.items[i].k, log[n].obj.items[i].v)

(***************************************************************************)
(* C3: structural and sequence validators evaluate every input key and     *)
(* element; in one and the same outcome every key or element whose value   *)
(* validates is present in data and every failing key or index has an      *)
(* entry in errors.                                                        *)
(***************************************************************************)
\* the s-th key schema supplies a value schema for the key
C3_Candidate(n, key, s) ==
    IF \E t \in 1..Len(KeySchemas) : PyEq(key, KeySchemas[t].k)
    THEN PyEq(key, KeySchemas[s].k)
    ELSE ~Truthy(Schema_result(KeySchemas[s].k, key, n).errors)

C3_Accepts(n, s, value) == ~Truthy(Schema_result(KeySchemas[s].v, value, n).errors)

C3_PairLoaded(n, i) ==
    LET key == log[n].obj.items[i].k
        value == log[n].obj.items[i].v
        candidates == {s \in 1..Len(KeySchemas) : C3_Candidate(n, key, s)}
        accepting == {s \in candidates : C3_Accepts(n, s, value)}
    IN  /\ accepting # {} =>
              \E s \in accepting :
                  HasEntry(ResultOf(n).data, key,
                           Schema_result(KeySchemas[s].v, value, n).data)
        /\ (candidates # {} /\ accepting = {}) =>
              DictHas(ResultOf(n).errors, key)

C3_DictSiblings ==
    \A n \in Calls : DictCall(n) =>
        \A i \in 1..Len(log[n].obj.items) : C3_PairLoaded(n, i)

\* the n-th call was a sequence passed to a sequence schema
ListCall(n) == schema.schema.kind = "List" /\ log[n].obj.kind = "list"

C3_ListSiblings ==
    \A n \in Calls : ListCall(n) =>
        \A i \in 1..Len(log[n].obj.items) :
            LET r == All_call(schema.schema.schema, log[n].obj.items[i], n).value
            IN  IF Truthy(r.errors)
                THEN DictHas(ResultOf(n).errors, PyInt(i - 1))
                ELSE /\ ResultOf(n).data.kind = "list"
                     /\ \E j \in 1..Len(ResultOf(n).data.items) :
                            ResultOf(n).data.items[j] = r.data

C3_SiblingsIndependent == C3_DictSiblings /\ C3_ListSiblings

(***************************************************************************)
(* C4 as claimed: after a structural evaluation, errors holds 'missing     *)
(* required key' under a required key schema's spec value if and only if   *)
(* no input key matched that key schema, by being equal to it or by        *)
(* validating against it.                                                  *)
(***************************************************************************)
C4_KeyValidates(key_schema, key, n) == ~Truthy(Schema_result(key_schema, key, n).errors)

C4_MissingReported(n, key_schema) ==
    HasEntry(ResultOf(n).errors, key_schema.schema.spec, MissingRequired)

C4_Matched(n, key_schema) ==
    \E i \in 1..Len(log[n].obj.items) :
        LET key == log[n].obj.items[i].k
        IN  IF \E s \in 1..Len(KeySchemas) : PyEq(key, KeySchemas[s].k)
            THEN PyEq(key, key_schema)
            ELSE C4_KeyValidates(key_schema, key, n)

C5_Unmatched(n, key) ==
    ~\E s \in 1..Len(KeySchemas) :
        PyEq(key, KeySchemas[s].k) \/ C4_KeyValidates(KeySchemas[s].k, key, n)

C5_InData(n, key) == ResultOf(n).data.kind = "dict" /\ DictHas(ResultOf(n).data, key)

C5_PolicyAt(n, key, value) ==
    CASE schema.extra = ALLOW_EXTRA ->
            /\ HasEntry(ResultOf(n).data, key, value)
            /\ ~DictHas(ResultOf(n).errors, key)
      [] schema.extra = DENY_EXTRA ->
            /\ HasEntry(ResultOf(n).errors, key, Dict_bad_key_error(schema.schema))
            /\ ~C5_InData(n, key)
      [] OTHER ->
            /\ ~C5_InData(n, key)
            /\ ~DictHas(ResultOf(n).errors, key)

C5_ExtraKeyPolicy ==
    \A n \in Calls : DictCall(n) =>
        \A i \in 1..Len(log[n].obj.items) :
            C5_Unmatched(n, log[n].obj.items[i].k) =>
                C5_PolicyAt(n, log[n].obj.items[i].k, log[n].obj.items[i].v)

(***************************************************************************)
(* C7: an Optional key schema never produces a 'missing required key'      *)
(* error; when it declares a default (a value or a generator) and the      *)
(* key was not loaded from the input, the default is in data under the     *)
(* key's underlying value; an Optional key without a default that is       *)
(* absent from the input is absent from data.                              *)
(***************************************************************************)
C7_IsDefault(optional, value, n) ==
    IF Callable(optional._default)
    THEN \E at \in 0..n : value = CallNoArgs(optional._default, at)
    ELSE value = optional._default

C7_InputHas(n, key) == DictHas(log[n].obj, key)

C7_OptionalDefault ==
    \A n \in Calls : DictCall(n) =>
        \A s \in 1..Len(KeySchemas) :
            LET optional == KeySchemas[s].k.schema
            IN  optional.kind = "Optional" =>
                  /\ ~C4_MissingReported(n, KeySchemas[s].k)
                  /\ optional._default # NotSet =>
                        /\ C5_InData(n, optional.spec)
                        /\ LET value == DictGet(ResultOf(n).data, optional.spec)
                           IN  \/ C7_IsDefault(optional, value, n)
                               \/ HasEntry(log[n].obj, optional.spec, value)
                        /\ ~C7_InputHas(n, optional.spec) =>
                              C7_IsDefault(optional,
                                           DictGet(ResultOf(n).data, optional.spec), n)
                  /\ (optional._default = NotSet /\ ~C7_InputHas(n, optional.spec)) =>
                        ~C5_InData(n, optional.spec)

\* {Optional('a', default=5): int} on {}: data {'a': 5}, no errors
C7_Witness ==
    \E n \in Calls :
        /\ schema.spec = PyDict(<<KV(Optional_new(PyStr("a"), PyInt(5)), int)>>)
        /\ log[n].obj = PyDict(<<>>)
        /\ ResultOf(n).data = PyDict(<<KV(PyStr("a"), PyInt(5))>>)
        /\ ResultOf(n).errors = PyDict(<<>>)

(***************************************************************************)
(* C8: a default declared as a zero-argument generator is invoked during   *)
(* each evaluation that applies the default, not once at construction:     *)
(* the default an outcome receives is the one generated during that        *)
(* evaluation, and no two outcomes share a default.                        *)
(***************************************************************************)
\* the n-th call applied the default of the Optional key schema
C8_Applied(n, optional) ==
    /\ DictCall(n)
    /\ optional.kind = "Optional"
    /\ Callable(optional._default)
    /\ ~C7_InputHas(n, optional.spec)

C8_FreshDefault ==
    \A s \in 1..Len(KeySchemas) :
        LET optional == KeySchemas[s].k.schema
        IN  /\ \A n \in Calls : C8_Applied(n, optional) =>
                  HasEntry(ResultOf(n).data, optional.spec,
                           CallNoArgs(optional._default, n))
            /\ \A n, m \in Calls : (n < m /\ C8_Applied(n, optional) /\ C8_Applied(m, optional)) =>
                  DictGet(ResultOf(n).data, optional.spec) #
                      DictGet(ResultOf(m).data, optional.spec)

(***************************************************************************)
(* Vocabulary of the sequence properties.                                  *)
(***************************************************************************)
\* the outcome of evaluating the i-th element of the n-th call's input
ElementResult(n, i) == All_call(schema.schema.schema, log[n].obj.items[i], n).value

\* the data of the selected elements, in input order
ElementData(n, selected) ==
    LET k == Len(log[n].obj.items)
        upto[i \in 0..k] ==
            IF i = 0 THEN <<>>
            ELSE IF i \in selected THEN Append(upto[i - 1], ElementResult(n, i).data)
                 ELSE upto[i - 1]
    IN  upto[k]

Elements(n) == 1..Len(log[n].obj.items)

(***************************************************************************)
(* C9 as claimed: every item of a sequence outcome's data is the loaded    *)
(* value of an element that validated without error, the items keep the    *)
(* input order, and an element that reported an error contributes nothing. *)
(***************************************************************************)
C9_OnlyValidated ==
    \A n \in Calls : (ListCall(n) /\ ResultOf(n).data.kind = "list") =>
        \E selected \in SUBSET {i \in Elements(n) : ~Truthy(ElementResult(n, i).errors)} :
            ResultOf(n).data.items = ElementData(n, selected)

(***************************************************************************)
(* C9 as amended: a sequence outcome's data holds, in input order, the     *)
(* data of every element whose evaluation returned data, be it the loaded  *)
(* value of an element without error or the partial data of an element     *)
(* that reported an error; an element contributes nothing only when its    *)
(* evaluation returned no data.                                            *)
(***************************************************************************)
C9_LoadedInOrder ==
    \A n \in Calls : (ListCall(n) /\ ResultOf(n).data.kind = "list") =>
        ResultOf(n).data.items =
            ElementData(n, {i \in Elements(n) : ElementResult(n, i).data # None})

\* [{'a': int, 'b': int}] on [{'a': 1, 'b': 'x'}, {'a': 1, 'b': 2}]: the partial
\* data of element 0 is kept before the loaded element 1
C9_Witness ==
    \E n \in Calls :
        /\ schema.spec = PyList(<<OrderedDict(<<KV(PyStr("a"), int), KV(PyStr("b"), int)>>)>>)
        /\ log[n].obj = PyList(<<OrderedDict(<<KV(PyStr("a"), PyInt(1)), KV(PyStr("b"), PyStr("x"))>>),
                                 OrderedDict(<<KV(PyStr("a"), PyInt(1)), KV(PyStr("b"), PyInt(2))>>)>>)
        /\ ResultOf(n).data =
              PyList(<<OrderedDict(<<KV(PyStr("a"), PyInt(1))>>),
                       OrderedDict(<<KV(PyStr("a"), PyInt(1)), KV(PyStr("b"), PyInt(2))>>)>>)
        /\ DictHas(ResultOf(n).errors, PyInt(0))
        /\ ~DictHas(ResultOf(n).errors, PyInt(1))

(***************************************************************************)
(* C10 as claimed: if every element of the input sequence reports an error *)
(* the sequence outcome's data is absent, never an empty or partially      *)
(* filled list.                                                            *)
(***************************************************************************)
C10_AllFailAbsent ==
    \A n \in Calls :
        ( /\ ListCall(n)
          /\ Elements(n) # {}
          /\ \A i \in Elements(n) : Truthy(ElementResult(n, i).errors) ) =>
        ResultOf(n).data = None

(***************************************************************************)
(* C10 as amended: if every element of the input sequence reports an error *)
(* and returns no partial data, the sequence outcome's data is absent,     *)
(* never an empty list.                                                    *)
(***************************************************************************)
C10_NothingLoadedAbsent ==
    \A n \in Calls :
        ( /\ ListCall(n)
          /\ Elements(n) # {}
          /\ \A i \in Elements(n) : /\ Truthy(ElementResult(n, i).errors)
                                    /\ ElementResult(n, i).data = None ) =>
        ResultOf(n).data = None

\* [int] on ['b', 'b']: both elements fail, data is absent
C10_Witness ==
    \E n \in Calls :
        /\ schema.spec = PyList(<<int>>)
        /\ log[n].obj = PyList(<<PyStr("b"), PyStr("b")>>)
        /\ ResultOf(n).data = None
        /\ DictHas(ResultOf(n).errors, PyInt(0))
        /\ DictHas(ResultOf(n).errors, PyInt(1))

(***************************************************************************)
(* C6: the extra-key policy passed to Schema(spec, extra=p) governs every  *)
(* structural schema compiled from spec at any nesting depth, through dict *)
(* values and also through list specs and All/Any combinators: every       *)
(* unmatched key of a nested mapping is copied to data under allow, gets   *)
(* an error and is left out of data under deny, and is in neither under    *)
(* ignore.                                                                 *)
(***************************************************************************)
RECURSIVE CountKey(_, _)
\* the number of mappings nested in x that have the key
CountKey(x, key) ==
    LET sum[i \in 0..Len(x.items)] ==
            IF i = 0 THEN 0
            ELSE sum[i - 1]
                 + (IF x.kind = "dict"
                    THEN (IF PyEq(x.items[i].k, key) THEN 1 ELSE 0)
                         + CountKey(x.items[i].v, key)
                    ELSE CountKey(x.items[i], key))
    IN  IF x.kind \in {"dict", "list"} THEN sum[Len(x.items)] ELSE 0

C6_PolicyAt(n, key) ==
    LET unmatched == CountKey(log[n].obj, key)
        in_data == CountKey(ResultOf(n).data, key)
        in_errors == CountKey(ResultOf(n).errors, key)
    IN  CASE schema.extra = ALLOW_EXTRA -> in_data = unmatched /\ in_errors = 0
          [] schema.extra = DENY_EXTRA -> in_data = 0 /\ in_errors = unmatched
          [] OTHER -> in_data = 0 /\ in_errors = 0

C6_PolicyEverywhere ==
    \A n \in Calls : schema.spec \in NestedSpecs => C6_PolicyAt(n, PyStr("c"))

(***************************************************************************)
(* C11: All evaluates its schemas in the given order, each on the data the *)
(* one before it returned, and stops at the first one that reports an      *)
(* error: that schema's result is returned and no later schema is invoked. *)
(***************************************************************************)
\* the schemas of the All or Any that the schema compiled to
Nodes == schema.schema.schema.items

RECURSIVE C11_Passed(_, _)
\* the data that reaches the j-th schema in the n-th call when the schemas
\* before it have all been invoked in order
C11_Passed(n, j) ==
    IF j = 1 THEN log[n].obj
    ELSE Schema_result(Nodes[j - 1], C11_Passed(n, j - 1), n).data

C11_Outcome(n, j) == Schema_result(Nodes[j], C11_Passed(n, j), n)

C11_Fails(n, j) == Truthy(C11_Outcome(n, j).errors)

\* the first schema that reports an error, the last schema when none does
C11_Stop(n) ==
    IF \E j \in 1..Len(Nodes) : C11_Fails(n, j)
    THEN CHOOSE j \in 1..Len(Nodes) : C11_Fails(n, j) /\ \A i \in 1..(j - 1) : ~C11_Fails(n, i)
    ELSE Len(Nodes)

C11_Trace(n) == All_trace(schema.schema, 1, SchemaResult(log[n].obj, None), n)

\* C11: a call of All(s1..sn) invokes s1..sk in this order, k the first
\* schema that reports an error (n when none does), each on the data returned
\* by the one before, and returns the result of sk
C11_FailFast ==
    \A n \in Calls :
        schema.schema.kind = "All" =>
            IF Len(Nodes) = 0 THEN ResultOf(n) = SchemaResult(log[n].obj, None)
            ELSE /\ ResultOf(n) = C11_Outcome(n, C11_Stop(n))
                 /\ Len(C11_Trace(n)) = C11_Stop(n)
                 /\ \A j \in 1..Len(C11_Trace(n)) :
                        /\ C11_Trace(n)[j].index = j
                        /\ C11_Trace(n)[j].data = C11_Passed(n, j)
                        /\ C11_Trace(n)[j].result = C11_Outcome(n, j)

\* a transform changed the data, the second schema failed on the changed
\* data, and a third schema was left out
C11_Witness ==
    \E n \in Calls :
        /\ schema.schema.kind = "All"
        /\ Len(Nodes) = 3
        /\ C11_Stop(n) = 2
        /\ C11_Fails(n, 2)
        /\ C11_Passed(n, 2) # log[n].obj
        /\ ResultOf(n).data = None
        /\ Len(C11_Trace(n)) = 2

(***************************************************************************)
(* C12: Any passes the original input to every alternative it attempts,    *)
(* whatever the alternatives before it returned.                           *)
(***************************************************************************)
C12_Trace(n) == Any_trace(schema.schema, 1, SchemaResult(log[n].obj, None), log[n].obj, n)

\* C12: in a call of Any(s1..sn) every invoked alternative is passed the
\* input of the call
C12_SameInput ==
    \A n \in Calls :
        schema.schema.kind = "Any" =>
            \A j \in 1..Len(C12_Trace(n)) : C12_Trace(n)[j].data = log[n].obj

(***************************************************************************)
(* C13: Any returns the result of the first alternative that reports no    *)
(* error and invokes none after it; when every alternative reports an      *)
(* error the result is that of the last one.                               *)
(***************************************************************************)
C13_Trace(n) == Any_trace(schema.schema, 1, SchemaResult(log[n].obj, None), log[n].obj, n)

\* the invocations t are those the claim describes, and res is the result of
\* the last of them
C13_Holds(t, res, n) ==
    /\ Len(t) \in 1..Len(Nodes)
    /\ \A j \in 1..Len(t) :
           /\ t[j].index = j
           /\ t[j].result = Schema_result(Nodes[j], t[j].data, n)
           /\ j < Len(t) => Truthy(t[j].result.errors)
    /\ \/ ~Truthy(t[Len(t)].result.errors)
       \/ Len(t) = Len(Nodes)
    /\ res = t[Len(t)].result

C13_WitnessAllFail ==
    \E n \in Calls :
        /\ schema.schema.kind = "Any"
        /\ Len(C13_Trace(n)) = 3
        /\ Truthy(ResultOf(n).errors)
        /\ ResultOf(n) = C13_Trace(n)[3].result
        /\ ResultOf(n).errors # C13_Trace(n)[1].result.errors

(***************************************************************************)
(* C14: in strict mode, chosen by the call's argument when it is given and *)
(* by the constructor's flag otherwise, the call raises SchemaError exactly *)
(* when the result has errors; the exception carries the errors and data   *)
(* of the non-strict result and the original input.                        *)
(***************************************************************************)
\* strict mode is active in the n-th call
C14_Active(n) ==
    IF log[n].strict = NotSet THEN schema.strict ELSE Truthy(log[n].strict)

\* what the non-strict call returns for the input of the n-th call
C14_NonStrict(n) == Schema_call(schema, log[n].obj, PyBool(FALSE), n).value

\* the n-th call raised a SchemaError carrying the non-strict result and the
\* original input
C14_RaisedWith(n, res) ==
    /\ log[n].out.raised
    /\ log[n].out.value = SchemaError("Schema validation failed", res.errors, res.data,
                                      log[n].obj)

\* the n-th call raises when hasErrors, and returns the non-strict result
\* otherwise
C14_CallHolds(n, res, hasErrors) ==
    IF C14_Active(n) /\ hasErrors THEN C14_RaisedWith(n, res)
    ELSE log[n].out = Return(res)

\* C14 as stated: with strict mode active the call raises if and only if the
\* errors of the result are not absent
C14_RaisesIffErrorsNotAbsent ==
    \A n \in Calls :
        LET res == C14_NonStrict(n) IN C14_CallHolds(n, res, res.errors # None)

\* C14: with strict mode active the call raises if and only if the errors of
\* the result are a message or a non-empty mapping
C14_RaisesIffErrorsNotEmpty ==
    \A n \in Calls :
        LET res == C14_NonStrict(n) IN C14_CallHolds(n, res, Truthy(res.errors))

\* the call's strict=True overrode the constructor's False and the exception
\* carries partial data
C14_Witness ==
    \E n \in Calls :
        /\ ~schema.strict
        /\ log[n].strict = PyBool(TRUE)
        /\ log[n].out.raised
        /\ log[n].out.value.data # None
        /\ log[n].out.value.original_data = log[n].obj
        /\ log[n].out.value.data # log[n].obj

\* the call's strict=False overrode the constructor's True: the errors are
\* returned, not raised
C14_WitnessOverrideOff ==
    \E n \in Calls :
        /\ schema.strict
        /\ log[n].strict = PyBool(FALSE)
        /\ ~log[n].out.raised
        /\ Truthy(log[n].out.value.errors)

(***************************************************************************)
(* C15: when the callable of a Validate raises on the input, the call      *)
(* returns no data and an error that reports the exception's message.      *)
(***************************************************************************)
\* sub occurs in the string s
Contains(s, sub) ==
    \E i \in 1..(Len(s) - Len(sub) + 1) : SubSeq(s, i, i + Len(sub) - 1) = sub

\* the n-th call was made on a Validate whose callable raised on the input
C15_Raised(n) ==
    /\ schema.schema.kind = "Validate"
    /\ Apply(schema.schema.schema, log[n].obj, n).threw

\* C15: a call of a Validate whose callable raises does not raise; its data
\* is absent and its error contains the message of the exception
C15_ReportsException ==
    \A n \in Calls :
        C15_Raised(n) =>
            /\ ~log[n].out.raised
            /\ ResultOf(n).data = None
            /\ ResultOf(n).errors.kind = "str"
            /\ Contains(ResultOf(n).errors.s,
                        Apply(schema.schema.schema, log[n].obj, n).msg)

(***************************************************************************)
(* C16: an exception raised by an As transform, or by the field getter or  *)
(* the transform of a Select, is not propagated: the call returns no data  *)
(* and an error naming the callable, the value it was applied to, and the  *)
(* class and message of the exception.                                     *)
(***************************************************************************)
\* the callables that the schema applies in turn: the transform of an As,
\* the field getter and then the transform of a Select
C16_Callables(node) ==
    CASE node.kind = "As" -> <<node.schema>>
      [] node.kind = "Select" ->
            [i \in 1..Len(node.schema.schema.items) |->
                node.schema.schema.items[i].schema.schema]
      [] OTHER -> <<>>

RECURSIVE C16_Arg(_, _, _, _)
\* the value the i-th of the callables fs is applied to when those before it
\* return
C16_Arg(fs, i, obj_, now) ==
    IF i = 1 THEN obj_ ELSE Apply(fs[i - 1], C16_Arg(fs, i - 1, obj_, now), now).value

C16_Throws(fs, i, obj_, now) == Apply(fs[i], C16_Arg(fs, i, obj_, now), now).threw

\* the i-th callable is the first that raises
C16_FirstThrow(fs, i, obj_, now) ==
    /\ C16_Throws(fs, i, obj_, now)
    /\ \A j \in 1..(i - 1) : ~C16_Throws(fs, j, obj_, now)

\* the message names the callable f, the value x and the exception f(x)
C16_Describes(message, f, x, now) ==
    /\ Contains(message, get_spec_name(f))
    /\ Contains(message, Repr(x))
    /\ Contains(message, Apply(f, x, now).cls)
    /\ Contains(message, Apply(f, x, now).msg)

\* the As or Select under test and the error reported for it: the schema
\* itself, or the value schema of the key 'k'
C16_Node == IF schema.schema.kind = "Dict" THEN schema.spec.items[1].v ELSE schema.schema

C16_Error(n) ==
    IF schema.schema.kind = "Dict"
    THEN (IF ResultOf(n).errors.kind = "dict" /\ DictHas(ResultOf(n).errors, PyStr("k"))
          THEN DictGet(ResultOf(n).errors, PyStr("k")) ELSE None)
    ELSE ResultOf(n).errors

\* C16: when a callable of an As or of a Select raises on the value it is
\* applied to, the call does not raise, its data is absent and its error
\* message names the callable, the value and the exception's class and message
C16_ExceptionReported ==
    \A n \in Calls :
        \A i \in 1..Len(C16_Callables(C16_Node)) :
            (log[n].obj.kind = "dict" \/ C16_Node.kind = "As")
            /\ C16_FirstThrow(C16_Callables(C16_Node), i, log[n].obj, n) =>
                /\ ~log[n].out.raised
                /\ ResultOf(n).data = None
                /\ C16_Error(n).kind = "str"
                /\ C16_Describes(C16_Error(n).s, C16_Callables(C16_Node)[i],
                                 C16_Arg(C16_Callables(C16_Node), i, log[n].obj, n), n)

\* Select('a') on a mapping without the key 'a': a KeyError of itemgetter
C16_Witness ==
    \E n \in Calls :
        /\ schema.schema.kind = "Select"
        /\ log[n].obj.kind = "dict"
        /\ ~DictHas(log[n].obj, PyStr("a"))
        /\ ResultOf(n).data = None
        /\ ResultOf(n).errors.kind = "str"
        /\ Contains(ResultOf(n).errors.s, "itemgetter(")
        /\ Contains(ResultOf(n).errors.s, "KeyError: 'a'")

\* the transform of a Select raised on the field the getter returned
C16_WitnessTransform ==
    \E n \in Calls :
        /\ schema.schema.kind = "Select"
        /\ Len(C16_Callables(C16_Node)) = 2
        /\ C16_FirstThrow(C16_Callables(C16_Node), 2, log[n].obj, n)
        /\ ResultOf(n).data = None

(***************************************************************************)
(* C17: when an evaluation succeeds with data d, evaluating d against the  *)
(* same schema succeeds and returns d.                                     *)
(***************************************************************************)
\* the n-th call returned without errors
C17_Succeeded(n) == ~log[n].out.raised /\ ~Truthy(ResultOf(n).errors)

\* evaluating the data of the n-th call again succeeds and returns that data
C17_Stable(n) ==
    LET again == Schema_result(schema, ResultOf(n).data, n + 1)
    IN  ~Truthy(again.errors) /\ again.data = ResultOf(n).data

RECURSIVE C17_Rewrites(_)
\* the compiled schema can put into data a value that the input does not
\* hold: it has a Use, As or Select, or an Optional key with a default
C17_Rewrites(node) ==
    CASE node.kind \in {"Use", "As", "Select"} -> TRUE
      [] node.kind = "Optional" -> node._default # NotSet
      [] node.kind \in {"Schema", "List"} -> C17_Rewrites(node.schema)
      [] node.kind \in {"All", "Any"} ->
            \E i \in 1..Len(node.schema.items) : C17_Rewrites(node.schema.items[i])
      [] node.kind = "Dict" ->
            \E i \in 1..Len(node.schema.items) :
                \/ C17_Rewrites(node.schema.items[i].k)
                \/ C17_Rewrites(node.schema.items[i].v)
      [] OTHER -> FALSE

C18_Equal(x, c) ==
    IF x.kind \in {"int", "bool"} /\ c.kind \in {"int", "bool"}
    THEN (IF x.kind = "bool" THEN (IF x.b THEN 1 ELSE 0) ELSE x.n) =
         (IF c.kind = "bool" THEN (IF c.b THEN 1 ELSE 0) ELSE c.n)
    ELSE x = c

\* C18: Schema(c)(x) for a literal c returns (x, None) when x == c, and else
\* no data and a message that contains repr(c) and repr(x)
C18_LiteralEquality ==
    \A n \in Calls :
        schema.spec \in ValueLiterals =>
            /\ schema.schema.kind = "Value"
            /\ ~log[n].out.raised
            /\ IF C18_Equal(log[n].obj, schema.spec)
               THEN ResultOf(n) = SchemaResult(log[n].obj, None)
               ELSE /\ ResultOf(n).data = None
                    /\ ResultOf(n).errors.kind = "str"
                    /\ Contains(ResultOf(n).errors.s, "expected " \o Repr(schema.spec))
                    /\ Contains(ResultOf(n).errors.s, "found " \o Repr(log[n].obj))

\* a string literal met a number: the error names both
C18_Witness ==
    \E n \in Calls :
        /\ schema.spec = PyStr("1")
        /\ log[n].obj = PyInt(1)
        /\ ResultOf(n) =
              SchemaResult(None, PyStr("value error, expected '1' but found 1"))

\* the input True equals the literal 1 and is returned as True
C18_WitnessEqual ==
    \E n \in Calls :
        /\ schema.spec = PyInt(1)
        /\ log[n].obj = PyBool(TRUE)
        /\ ResultOf(n) = SchemaResult(PyBool(TRUE), None)

(***************************************************************************)
(* C19: a type spec T accepts exactly the instances of one of its types    *)
(* and returns them; any other input gives no data and an error listing    *)
(* the names of the types of T, sorted without regard to case and joined   *)
(* by 'or', and the name of the class of the input.                        *)
(***************************************************************************)
\* the classes of a type spec
C19_Classes(spec) == IF spec.kind = "type" THEN <<spec>> ELSE spec.items

\* v is an instance of the class named name: a bool is an int, a mapping is
\* a Mapping, everything is an object, a class is a type
C19_InstanceOf(v, name) ==
    CASE name = "object" -> TRUE
      [] name = "int" -> v.kind \in {"int", "bool"}
      [] name = "Mapping" -> v.kind = "dict"
      [] OTHER -> v.kind = name

\* listed holds the names of the classes cs, each once per occurrence, in an
\* order that is ascending when case is ignored
C19_SortedNames(listed, cs) ==
    /\ Len(listed) = Len(cs)
    /\ \E p \in [1..Len(cs) -> 1..Len(cs)] :
          /\ \A i, j \in 1..Len(cs) : i # j => p[i] # p[j]
          /\ \A i \in 1..Len(cs) : listed[i] = cs[p[i]].name
    /\ \A i, j \in 1..Len(listed) :
          i < j => ~CodesLess(LowerCodes(listed[j]), LowerCodes(listed[i]))

\* C19: Schema(T)(v) returns (v, None) if and only if v is an instance of a
\* class of T; otherwise it returns no data and the message 'type error,
\* expected A or B but found C' with the class names of T in
\* case-insensitive order and C the name of the class of v
C19_TypeCheck ==
    \A n \in Calls :
        schema.spec \in TypeSpecs =>
            /\ ~log[n].out.raised
            /\ IF \E i \in 1..Len(C19_Classes(schema.spec)) :
                     C19_InstanceOf(log[n].obj, C19_Classes(schema.spec)[i].name)
               THEN ResultOf(n) = SchemaResult(log[n].obj, None)
               ELSE /\ ResultOf(n).data = None
                    /\ ResultOf(n).errors.kind = "str"
                    /\ \E listed \in [1..Len(C19_Classes(schema.spec)) ->
                                         {t.name : t \in Types}] :
                          /\ C19_SortedNames(listed, C19_Classes(schema.spec))
                          /\ ResultOf(n).errors.s =
                                "type error, expected " \o Join(listed, " or ") \o
                                " but found " \o log[n].obj.kind

\* the class int passed to (NoneType, int) is rejected as a type, and the
\* names of the tuple are listed in case-insensitive order
C19_Witness ==
    \E n \in Calls :
        /\ schema.spec = PyTuple(<<PyType("NoneType"), int>>)
        /\ log[n].obj = int
        /\ ResultOf(n) =
              SchemaResult(None, PyStr("type error, expected int or NoneType but found type"))

\* a bool is accepted by int and returned unchanged
C19_WitnessInstance ==
    \E n \in Calls :
        /\ schema.spec = int
        /\ log[n].obj = PyBool(TRUE)
        /\ ResultOf(n) = SchemaResult(PyBool(TRUE), None)

(***************************************************************************)
(* C20: Schema(spec) compiles to one node, chosen by the first test that   *)
(* the spec passes: a schema object is embedded, a list gives a sequence   *)
(* validator, a dict a structural validator, a type or tuple a type check, *)
(* a callable a predicate, anything else a literal; a type, although       *)
(* callable, gives a type check.                                           *)
(***************************************************************************)
\* the shapes of the claim that a spec has
C20_Shapes(spec) ==
    {shape \in {"node", "list", "dict", "type", "callable", "literal"} :
        CASE shape = "node" -> spec.kind \in SchemaClasses
          [] shape = "list" -> spec.kind = "list"
          [] shape = "dict" -> spec.kind = "dict"
          [] shape = "type" -> spec.kind \in {"type", "tuple"}
          [] shape = "callable" ->
                spec.kind \in {"function", "type", "itemgetter"} \cup SchemaClasses
          [] shape = "literal" -> TRUE}

C20_Priority == <<"node", "list", "dict", "type", "callable", "literal">>

\* the first shape, in the order of the claim, that the spec has
C20_Chosen(spec) ==
    C20_Priority[CHOOSE i \in 1..Len(C20_Priority) :
                    /\ C20_Priority[i] \in C20_Shapes(spec)
                    /\ \A j \in 1..(i - 1) : C20_Priority[j] \notin C20_Shapes(spec)]

\* the class of the node made for a shape
C20_Class ==
    [list |-> "List", dict |-> "Dict", type |-> "Type", callable |-> "Validate",
     literal |-> "Value"]

\* C20: the node a Schema compiles to is the embedded schema object when the
\* spec is one, and else a node of the class of the first shape the spec has,
\* made from the spec
C20_CompilePriority ==
    schema.spec \in CompileSpecs =>
        IF C20_Chosen(schema.spec) = "node"
        THEN schema.schema = (IF schema.spec.kind = "Schema" THEN schema.spec.schema
                              ELSE schema.spec)
        ELSE /\ schema.schema.kind = C20_Class[C20_Chosen(schema.spec)]
             /\ schema.schema.spec = schema.spec

\* the class dict, which is callable, was compiled to a type check and
\* rejects a number with a type error
C20_Witness ==
    \E n \in Calls :
        /\ schema.spec = PyType("dict")
        /\ "callable" \in C20_Shapes(schema.spec)
        /\ schema.schema.kind = "Type"
        /\ log[n].obj = PyInt(5)
        /\ ResultOf(n) =
              SchemaResult(None, PyStr("type error, expected dict but found int"))

\* a function was compiled to a predicate
C20_WitnessCallable ==
    \E n \in Calls :
        /\ schema.spec = double
        /\ schema.schema.kind = "Validate"
        /\ log[n].obj = PyInt(5)
        /\ ResultOf(n) = SchemaResult(PyInt(5), None)

(***************************************************************************)
(* C21.  A key whose value is a Use or Select helper.                      *)
(***************************************************************************)
\* the pairs of the spec whose value is a helper that computes the key
C21_Computed == {i \in 1..Len(schema.spec.items) : schema.spec.items[i].v.kind \in {"Use", "Select"}}

\* what the helper h gives for the whole input: Use gives its constant or what
\* its zero-argument callable returns, Select what its pipeline returns
C21_Helper(h, obj_, n) ==
    IF h.kind = "Use"
    THEN SchemaResult(IF Callable(h.spec) THEN CallNoArgs(h.spec, n) ELSE h.spec, None)
    ELSE Schema_result(Schema_new(h, FALSE, IGNORE_EXTRA, 0), obj_, n)

\* the outcome res holds under key exactly what the helper's result r is
\* (a failing helper without data leaves the key out of the data, or to the
\* default that the key declares)
C21_Populated(res, key, r) ==
    /\ ~HasEntry(res.errors, key, MissingRequired)
    /\ IF ~Truthy(r.errors)
       THEN HasEntry(res.data, key, r.data) /\ ~DictHas(res.errors, key)
       ELSE /\ HasEntry(res.errors, key, Wrapped(r.errors))
            /\ IF r.data # None THEN HasEntry(res.data, key, r.data)
               ELSE IF key.kind = "Optional" /\ key._default # NotSet
                    THEN HasEntry(res.data, key, key._default)
                    ELSE ~(res.data.kind = "dict" /\ DictHas(res.data, key))

\* C21: in every evaluation of a mapping, each spec key whose value is a Use or
\* Select helper holds the helper's result for the whole input (the constant
\* or what the zero-argument callable returns for Use), whether or not the
\* input has that key; the key is never reported as missing, and the input's
\* entry under that key is neither validated nor treated as an extra key
C21_ComputedKeys ==
    \A n \in Calls : DictCall(n) =>
        \A i \in C21_Computed :
            C21_Populated(ResultOf(n), schema.spec.items[i].k,
                          C21_Helper(schema.spec.items[i].v, log[n].obj, n))

\* a constant is injected under allow although the input has another value
\* under the key and a key schema that accepts every string is present
C21_Witness ==
    /\ schema.spec = OrderedDict(<<KV(PyStr("k"), Use_new(PyInt(5))), KV(str, int)>>)
    /\ schema.extra = ALLOW_EXTRA
    /\ \E n \in Calls :
          /\ log[n].obj = OrderedDict(<<KV(PyStr("k"), PyStr("s"))>>)
          /\ ResultOf(n).data = OrderedDict(<<KV(PyStr("k"), PyInt(5))>>)
          /\ ResultOf(n).errors = OrderedDict(<<KV(str, MissingRequired)>>)

\* the generator of a Use is called during the evaluation, on an input
\* without the key
C21_WitnessGenerated ==
    /\ schema.spec = OrderedDict(<<KV(PyStr("k"), Use_new(counter))>>)
    /\ \E n \in Calls :
          /\ log[n].obj = OrderedDict(<<>>)
          /\ ResultOf(n) = SchemaResult(OrderedDict(<<KV(PyStr("k"), PyInt(n))>>),
                                        OrderedDict(<<>>))

(***************************************************************************)
(* C22.  Malformed specs raise TypeError when the validator is constructed.*)
(***************************************************************************)
RECURSIVE C22_Malformed(_, _)
\* the spec x is malformed: a Type of something that is no type and no tuple
\* of types, a List of a non-list, a Dict of a non-dict, a Validate or As of a
\* non-callable, a Select whose transform is given and not callable (only
\* next to a field name when fieldOnly); raw tuples, lists and dicts are read
\* as Schema.compile reads them
C22_Malformed(x, fieldOnly) ==
    CASE x.kind \in {"Type", "tuple"} ->
            LET t == IF x.kind = "Type" THEN x.spec ELSE x
            IN  ~(IsType(t) \/ IsTupleOfTypes(t))
      [] x.kind \in {"List", "list"} ->
            LET l == IF x.kind = "List" THEN x.spec ELSE x
            IN  IF l.kind # "list" THEN TRUE
                ELSE \E i \in 1..Len(l.items) : C22_Malformed(l.items[i], fieldOnly)
      [] x.kind \in {"Dict", "dict"} ->
            LET d == IF x.kind = "Dict" THEN x.spec ELSE x
            IN  IF d.kind # "dict" THEN TRUE
                ELSE \E i \in 1..Len(d.items) : \/ C22_Malformed(d.items[i].k, fieldOnly)
                                                \/ C22_Malformed(d.items[i].v, fieldOnly)
      [] x.kind \in {"Validate", "As"} -> ~Callable(x.spec)
      [] x.kind = "Select" ->
            /\ x.spec.items[2] # NotSet
            /\ ~Callable(x.spec.items[2])
            /\ (fieldOnly => ~Callable(x.spec.items[1]))
      [] OTHER -> FALSE

\* no call returns or raises anything but a result or a SchemaError
C22_NoLateError ==
    \A n \in Calls : log[n].out.value.kind = (IF log[n].out.raised THEN "SchemaError"
                                              ELSE "SchemaResult")

\* a construction that raised did raise TypeError before any evaluation
C22_RaisedEarly == schema.kind = "TypeError" => log = <<>>

\* C22: a malformed spec (Type of a non-type, List of a non-list, Dict of a
\* non-dict, Validate or As of a non-callable, Select with a non-callable
\* transform) raises TypeError when the validator is constructed: no schema
\* is ever built from one, and no evaluation returns or raises such an error
C22_MalformedRaises ==
    /\ schema.kind = "Schema" => ~C22_Malformed(schema.spec, FALSE)
    /\ C22_RaisedEarly
    /\ C22_NoLateError

\* the same with the transform of a Select read only next to a field name
C22_MalformedFieldRaises ==
    /\ schema.kind = "Schema" => ~C22_Malformed(schema.spec, TRUE)
    /\ C22_RaisedEarly
    /\ C22_NoLateError

\* a Select with a field name and a transform that is not callable raised
C22_WitnessRaised ==
    /\ schema.kind = "TypeError"
    /\ schema.raised_by = New("Select", <<PyStr("a"), PyInt(1)>>)
    /\ schema.message = "Schema iteratee must be callable but found 1"

(***************************************************************************)
(* C23.  A Schema object used as a spec.                                   *)
(***************************************************************************)
\* the Schema object that the spec is, or has as its value
C23_Embedded == IF schema.spec.kind = "Schema" THEN schema.spec ELSE schema.spec.items[1].v

\* the spec with the Schema object replaced by x
C23_With(x) ==
    IF schema.spec.kind = "Schema" THEN x
    ELSE OrderedDict(<<KV(schema.spec.items[1].k, x)>>)

\* what the n-th call gives on a schema built like this one from spec
C23_OutcomeOf(spec, n) ==
    Schema_call(Schema_new(spec, schema.strict, schema.extra, 0), log[n].obj, log[n].strict, n)

\* the n-th call gave what the raw spec gives
C23_AsRaw(n) == log[n].out = C23_OutcomeOf(C23_With(C23_Embedded.spec), n)

\* C23 as stated: a Schema object used as a spec, directly or as a key's
\* value, gives for every input the outcome that the raw spec it was built
\* from gives, and its strict flag never raises
C23_SameAsRawSpec == \A n \in Calls : ~log[n].out.raised /\ C23_AsRaw(n)

\* C23 amended: the strict flag of the embedded Schema never raises and never
\* changes the outcome; a Schema wrapped directly gives what the embedded one
\* gives, under the embedded one's own extra policy; the outcome is that of
\* the raw spec when the embedded Schema was built with the outer policy
C23_SameAsEmbedded ==
    \A n \in Calls :
        /\ ~log[n].out.raised
        /\ log[n].out = C23_OutcomeOf(C23_With([C23_Embedded EXCEPT !.strict = FALSE]), n)
        /\ schema.spec.kind = "Schema" =>
              ResultOf(n) = Schema_result(C23_Embedded, log[n].obj, n)
        /\ C23_Embedded.extra = schema.extra => C23_AsRaw(n)

\* a strict Schema as the value of a type key: its failure is in the error
\* tree of the outer outcome, next to the data that loaded
C23_Witness ==
    /\ schema.spec = OrderedDict(<<KV(str,
            Schema_new(OrderedDict(<<KV(PyStr("a"), int), KV(PyStr("b"), str)>>),
                       TRUE, IGNORE_EXTRA, 0))>>)
    /\ \E n \in Calls :
          /\ Len(log[n].obj.items) = 2
          /\ ResultOf(n).data = log[n].obj
          /\ ResultOf(n).errors =
                OrderedDict(<<KV(PyStr("x"), OrderedDict(<<KV(PyStr("a"), MissingRequired)>>))>>)

\* an embedded Schema that allows extra keys keeps them under an outer Schema
\* that denies them
C23_WitnessOwnPolicy ==
    /\ schema.spec.kind = "Schema"
    /\ schema.spec.extra = ALLOW_EXTRA
    /\ schema.extra = DENY_EXTRA
    /\ \E n \in Calls :
          /\ log[n].obj = OrderedDict(<<KV(PyStr("b"), PyInt(1)), KV(PyStr("c"), PyInt(2))>>)
          /\ ResultOf(n) = SchemaResult(log[n].obj, OrderedDict(<<>>))

(***************************************************************************)
(* C24.  Evaluation leaves the compiled validator as it is.                *)
(***************************************************************************)
\* the schema compiled from the spec and never called
C24_Fresh == Schema_new(schema.spec, schema.strict, schema.extra, 0)

\* C24: whatever calls the callers have made or have in progress on the
\* shared schema, the compiled validator (key schemas, required set, defaults,
\* child nodes) is the one that was compiled, and every call that has
\* returned gave what a freshly compiled schema gives for its input
C24_EvaluationIsPure ==
    /\ schema = C24_Fresh
    /\ \A n \in Calls :
          log[n].out = Schema_call(C24_Fresh, log[n].obj, log[n].strict, log[n].now)

\* two calls on a mapping schema overlapped (the one that began second
\* returned first), each with an error of its own
C24_Witness ==
    /\ schema.schema.kind = "Dict"
    /\ Len(log) = 2
    /\ log[1].now = 2
    /\ log[2].now = 1
    /\ log[1].obj = OrderedDict(<<KV(PyStr("p"), PyInt(1))>>)
    /\ log[2].obj = OrderedDict(<<KV(PyStr("q"), PyStr("s"))>>)
    /\ HasEntry(ResultOf(1).errors, PyStr("q"), MissingRequired)
    /\ HasEntry(ResultOf(2).errors, PyStr("p"), MissingRequired)

(***************************************************************************)
(* C25.  When the data of a structural outcome is absent.                  *)
(***************************************************************************)
\* the local variables of Dict.__call__ after the loop over the pairs of the
\* input of the n-th call
C25_Loop(n) ==
    Dict_pairs(schema.schema, log[n].obj, 1,
               Dict_usables(schema.schema, log[n].obj, 1,
                            [data |-> PyDict(<<>>), errors |-> PyDict(<<>>), seen |-> {}], n),
               n)

\* for the data and errors accumulated on the input obj_, the outcome res has
\* no data exactly when the data is empty and there are errors or the data
\* differs from the input, and else has that data
C25_Holds(res, data, errors, obj_) ==
    /\ res.errors = errors
    /\ res.data = None <=>
          (Len(data.items) = 0 /\ (Len(errors.items) > 0 \/ Len(obj_.items) > 0))
    /\ res.data # None => res.data = data

\* C25: the data of the outcome of a structural schema is absent if and only
\* if the accumulated data is empty and the errors are not empty or the
\* accumulated data differs from the input (which is then not empty)
C25_AbsentIffNothingLoaded ==
    \A n \in Calls : DictCall(n) =>
        LET acc == C25_Loop(n)
        IN  C25_Holds(ResultOf(n), Dict_apply_defaults(schema.schema, acc.data),
                      Dict_missing_errors(schema.schema, acc.seen, acc.errors), log[n].obj)

\* an input that is not empty and of which no key loaded: no data, no errors
C25_Witness ==
    /\ schema.extra = IGNORE_EXTRA
    /\ \E n \in Calls :
          /\ DictCall(n)
          /\ Len(log[n].obj.items) > 0
          /\ ResultOf(n) = SchemaResult(None, OrderedDict(<<>>))

\* the empty input on a schema without required keys: data {}, no errors
C25_WitnessEmpty ==
    \E n \in Calls :
        /\ DictCall(n)
        /\ Len(schema.spec.items) > 0
        /\ log[n].obj = OrderedDict(<<>>)
        /\ ResultOf(n) = SchemaResult(OrderedDict(<<>>), OrderedDict(<<>>))

(***************************************************************************)
(* C26.  The shape of the errors.                                          *)
(***************************************************************************)
RECURSIVE C26_SubError(_)
\* e is a message that is not empty, or a mapping that is not empty and
\* holds such sub-errors
C26_SubError(e) ==
    \/ e.kind = "str" /\ e.s # ""
    \/ /\ e.kind = "dict"
       /\ Len(e.items) > 0
       /\ \A i \in 1..Len(e.items) : C26_SubError(e.items[i].v)

\* e is absent, a message, or a mapping of sub-errors
C26_Errors(e) ==
    \/ e = None
    \/ e.kind = "str"
    \/ e.kind = "dict" /\ \A i \in 1..Len(e.items) : C26_SubError(e.items[i].v)

\* C26: the errors of every outcome, returned or raised, are absent, a
\* message, or a mapping from key or index to sub-error in which every
\* sub-error is a non-empty message or a non-empty mapping of the same shape;
\* an input that is no mapping given to a structural schema and an input that
\* is no list given to a sequence schema give a message
C26_ErrorShape ==
    \A n \in Calls :
        /\ C26_Errors(ResultOf(n).errors)
        /\ schema.schema.kind = "Dict" /\ log[n].obj.kind # "dict" =>
              ResultOf(n).errors.kind = "str"
        /\ schema.schema.kind = "List" /\ log[n].obj.kind # "list" =>
              ResultOf(n).errors.kind = "str"

\* a failing mapping in a sequence: a mapping of errors under its index
C26_Witness ==
    \E n \in Calls :
        /\ schema.schema.kind = "List"
        /\ ResultOf(n).errors.kind = "dict"
        /\ Len(ResultOf(n).errors.items) = 1
        /\ ResultOf(n).errors.items[1].k = PyInt(1)
        /\ ResultOf(n).errors.items[1].v.kind = "dict"
        /\ ResultOf(n).errors.items[1].v.items[1].v.kind = "str"

\* a list given to a structural schema: a message
C26_WitnessNoMapping ==
    \E n \in Calls :
        /\ schema.schema.kind = "Dict"
        /\ log[n].obj = PyList(<<>>)
        /\ ResultOf(n).errors = PyStr("type error, expected Mapping but found list")

(***************************************************************************)
(* C27.  A sequence schema applies all its element specs as a pipeline.    *)
(***************************************************************************)
\* what the schema of the element spec s gives for x in the n-th call
C27_Node(s, x, n) == Schema_result(Schema_new(s, FALSE, IGNORE_EXTRA, 0), x, n)

\* the pipeline of the element specs accepts x: there are none, or the first
\* accepts x and the second accepts what the first gives
C27_Accepts(specs, x, n) ==
    \/ Len(specs) = 0
    \/ /\ Len(specs) = 2
       /\ ~Truthy(C27_Node(specs[1], x, n).errors)
       /\ ~Truthy(C27_Node(specs[2], C27_Node(specs[1], x, n).data, n).errors)

\* C27: a sequence schema applies all the element specs of its spec list to
\* each element: with [s1, s2] an element has no error if and only if s1
\* accepts it and s2 accepts what s1 gives for it, and with [] no element of
\* any list has an error
C27_ElementPipeline ==
    \A n \in Calls : ListCall(n) /\ Len(schema.spec.items) \in {0, 2} =>
        \A i \in Elements(n) :
            ~DictHas(ResultOf(n).errors, PyInt(i - 1))
                <=> C27_Accepts(schema.spec.items, log[n].obj.items[i], n)

\* [As(int), lt10] on ['1', 15]: the first element passes both, the second
\* passes the transform and fails the predicate
C27_Witness ==
    /\ schema.spec = PyList(<<As_new(int), lt10>>)
    /\ \E n \in Calls :
          /\ log[n].obj = PyList(<<PyStr("1"), PyInt(15)>>)
          /\ ResultOf(n).data = PyList(<<PyInt(1)>>)
          /\ ResultOf(n).errors =
                OrderedDict(<<KV(PyInt(1), PyStr("bad value: lt10(15) should evaluate to True"))>>)

\* [] on a list of two elements: no errors
C27_WitnessEmpty ==
    /\ schema.spec = PyList(<<>>)
    /\ \E n \in Calls :
          /\ ListCall(n)
          /\ Len(log[n].obj.items) = 2
          /\ ResultOf(n) = SchemaResult(log[n].obj, OrderedDict(<<>>))

(***************************************************************************)
(* C28.  The order of the key-schema/value-schema pairs of a compiled      *)
(* mapping schema.                                                         *)
(***************************************************************************)
\* the schema under check is a mapping schema
C28_Compiled == schema.kind = "Schema" /\ schema.schema.kind = "Dict"

\* the position in the spec of the key spec that the key schema ks wraps
C28_SpecIndex(ks) ==
    CHOOSE p \in 1..Len(schema.spec.items) : schema.spec.items[p].k = ks.spec

\* the key schema compares by equality: its compiled node is a Value
C28_Literal(ks) == ks.schema.kind = "Value"

\* C28: in the ordered key-schema/value-schema list of a compiled mapping
\* schema every literal key-schema comes before every type key-schema
C28_LiteralKeysFirst ==
    C28_Compiled =>
        \A i, j \in 1..Len(KeySchemas) :
            C28_Literal(KeySchemas[i].k) /\ KeySchemas[j].k.schema.kind = "Type" => i < j

\* what the sort does: every key-schema that is not a literal (a type, a
\* tuple of types, an Optional key) comes before every literal key-schema
C28_LiteralKeysLast ==
    C28_Compiled =>
        \A i, j \in 1..Len(KeySchemas) :
            C28_Literal(KeySchemas[i].k) /\ ~C28_Literal(KeySchemas[j].k) => j < i

\* pairs of the same kind keep the relative order that they have in the
\* spec
C28_StableWithinKind ==
    C28_Compiled =>
           \A i, j \in 1..Len(KeySchemas) :
              (i < j /\ (C28_Literal(KeySchemas[i].k) <=> C28_Literal(KeySchemas[j].k)))
                  => C28_SpecIndex(KeySchemas[i].k) < C28_SpecIndex(KeySchemas[j].k)

\* {'a': int, str: int} compiles to the list [str, 'a']
C28_WitnessReordered ==
    /\ schema.spec = OrderedDict(<<KV(PyStr("a"), int), KV(str, int)>>)
    /\ KeySchemas[1].k.spec = str
    /\ KeySchemas[2].k.spec = PyStr("a")

\* {(str, int): int, str: int} keeps the order of the spec
C28_WitnessStable ==
    /\ schema.spec = OrderedDict(<<KV(PyTuple(<<str, int>>), int), KV(str, int)>>)
    /\ KeySchemas[1].k.spec = PyTuple(<<str, int>>)
    /\ KeySchemas[2].k.spec = str

(***************************************************************************)
(* C29.  The value-schema of a type key-schema reaches an input key only   *)
(* when the key is an instance of one of the types.                        *)
(***************************************************************************)
\* the accumulator of Dict.__call__ when the loop reaches the i-th input pair
C29_Before(n, i) ==
    Dict_pairs(schema.schema, [log[n].obj EXCEPT !.items = SubSeq(@, 1, i - 1)], 1,
               Dict_usables(schema.schema, log[n].obj, 1,
                            [data |-> PyDict(<<>>), errors |-> PyDict(<<>>), seen |-> {}], n),
               n)

\* the i-th input pair is not skipped, and the value-schema of the s-th
\* key-schema is among those that the loop chooses for its key
C29_Applied(n, i, s) ==
    LET key == log[n].obj.items[i].k
        before == C29_Before(n, i)
        found == Dict_value_schemas(schema.schema, key, before.seen, n)
    IN  /\ ~SetHas(before.seen, key)
        /\ IF DictHas(schema.schema.schema, key)
           THEN s = DictIndex(schema.schema.schema, key)
           ELSE KeySchemas[s].k \in found.seen \ before.seen

\* the s-th key-schema is a type key-schema
C29_TypeKey(s) == KeySchemas[s].k.schema.kind = "Type"

\* the input key is a type or a tuple of types
C29_TypeLike(key) == IsType(key) \/ IsTupleOfTypes(key)

C29_Holds(n, i, s) ==
    C29_TypeKey(s) /\ C29_Applied(n, i, s)
        => IsInstance(log[n].obj.items[i].k, KeySchemas[s].k.schema.schema)

\* C29: in a mapping schema the value-schema of a type key-schema is applied
\* to an input key only if the key is an instance of one of the key-schema's
\* types, for every hashable input key, types and tuples of types included
C29_TypeKeyNeedsInstance ==
    \A n \in Calls : DictCall(n) =>
        \A i \in 1..Len(log[n].obj.items) : \A s \in 1..Len(KeySchemas) : C29_Holds(n, i, s)

\* the same for the input keys that are not types or tuples of types
C29_TypeKeyNeedsInstanceOfPlainKeys ==
    \A n \in Calls : DictCall(n) =>
        \A i \in 1..Len(log[n].obj.items) : \A s \in 1..Len(KeySchemas) :
            ~C29_TypeLike(log[n].obj.items[i].k) => C29_Holds(n, i, s)

\* {str: int} with extra keys denied, on {(str,): 1}: the key is no string
\* and no literal key-schema exists, yet the pair is loaded
C29_WitnessTupleKey ==
    /\ schema.spec = OrderedDict(<<KV(str, int)>>)
    /\ schema.extra = DENY_EXTRA
    /\ \E n \in Calls :
          /\ log[n].obj = OrderedDict(<<KV(PyTuple(<<str>>), PyInt(1))>>)
          /\ ResultOf(n) = SchemaResult(log[n].obj, OrderedDict(<<>>))

\* {str: int} on {'a': 1}: the value-schema of the type key-schema is applied
\* to a key that is an instance of the type
C29_WitnessInstance ==
    /\ schema.spec = OrderedDict(<<KV(str, int)>>)
    /\ \E n \in Calls :
          /\ log[n].obj = OrderedDict(<<KV(PyStr("a"), PyInt(1))>>)
          /\ C29_Applied(n, 1, 1)
          /\ ResultOf(n) = SchemaResult(log[n].obj, OrderedDict(<<>>))

(***************************************************************************)
(* C30.  An Optional key with a default whose supplied value fails.        *)
(***************************************************************************)
\* the s-th key-schema is an Optional key that declares a default
C30_HasDefault(s) ==
    /\ KeySchemas[s].k.schema.kind = "Optional"
    /\ DictHas(schema.schema.defaults, KeySchemas[s].k.schema.spec)

C30_Default(s) == DictGet(schema.schema.defaults, KeySchemas[s].k.schema.spec)

\* the value schemas that the loop chooses for an input key
C30_Chosen(n, key) == Dict_value_schemas(schema.schema, key, {}, n).value_schemas

\* the input of the n-th call supplies the key of the s-th key-schema
C30_Supplied(n, s) == DictHas(log[n].obj, KeySchemas[s].k.schema.spec)

\* the supplied value of the s-th key fails validation and leaves no data
C30_Fails(n, s, res) ==
    /\ C30_HasDefault(s)
    /\ C30_Supplied(n, s)
    /\ Len(C30_Chosen(n, KeySchemas[s].k.schema.spec)) > 0
    /\ Truthy(res.errors)
    /\ res.data = None

C30_FailedHolds(n, s, res) ==
    C30_Fails(n, s, res) =>
        /\ HasEntry(ResultOf(n).errors, KeySchemas[s].k.schema.spec, Wrapped(res.errors))
        /\ HasEntry(ResultOf(n).data, KeySchemas[s].k.schema.spec, C30_Default(s))

\* the default of a key that the input does not supply is in data as it was
\* declared, with no error under the key, whatever the value-schema of the
\* key makes of it
C30_AbsentHolds(n, s) ==
    C30_HasDefault(s) /\ ~C30_Supplied(n, s) =>
        /\ HasEntry(ResultOf(n).data, KeySchemas[s].k.schema.spec, C30_Default(s))
        /\ ~DictHas(ResultOf(n).errors, KeySchemas[s].k.schema.spec)

\* C30: when the input supplies an Optional key that declares a default and
\* the supplied value fails validation without partial data, the outcome holds
\* the 'bad value' error under the key and the default under the key in data;
\* a default is inserted without being evaluated against the value-schema
C30_ErrorAndDefault ==
    \A n \in Calls : DictCall(n) =>
        \A s \in 1..Len(KeySchemas) :
            /\ C30_HasDefault(s) /\ C30_Supplied(n, s) =>
                  C30_FailedHolds(n, s,
                      Dict_value_result(C30_Chosen(n, KeySchemas[s].k.schema.spec),
                                        DictGet(log[n].obj, KeySchemas[s].k.schema.spec), n))
            /\ C30_AbsentHolds(n, s)

\* {Optional('a', default=5): int} on {'a': 'b'}: the error and the default
C30_Witness ==
    /\ schema.spec = OrderedDict(<<KV(Optional_new(PyStr("a"), PyInt(5)), int)>>)
    /\ \E n \in Calls :
          /\ log[n].obj = OrderedDict(<<KV(PyStr("a"), PyStr("b"))>>)
          /\ ResultOf(n) =
                SchemaResult(OrderedDict(<<KV(PyStr("a"), PyInt(5))>>),
                             OrderedDict(<<KV(PyStr("a"),
                                 PyStr("bad value: type error, expected int but found str"))>>))

\* {Optional('a', default=5): str} on {'b': 1}: the default 5 is no string
\* and is in data without an error
C30_WitnessNotValidated ==
    /\ schema.spec = OrderedDict(<<KV(Optional_new(PyStr("a"), PyInt(5)), str)>>)
    /\ schema.extra = IGNORE_EXTRA
    /\ \E n \in Calls :
          /\ log[n].obj = OrderedDict(<<KV(PyStr("b"), PyInt(1))>>)
          /\ ResultOf(n) = SchemaResult(OrderedDict(<<KV(PyStr("a"), PyInt(5))>>),
                                        OrderedDict(<<>>))

====
